---------------------------- MODULE Spec2Model ----------------------------
(***************************************************************************)
(* Model of the trading simulation engine of AnnualTradingResults          *)
(* (src/src/annual-trading-results.tsx): the useEffect that expands a date *)
(* range into trading days, runs tradesPerDay trials per day and folds the *)
(* outcomes into streak, drawdown, bucket and summary statistics.          *)
(*                                                                         *)
(* Conventions.  A JavaScript Date is modelled by its time value in whole   *)
(* minutes since 1970-01-01T00:00Z.  The dates of the program are          *)
(* date-only ISO strings, which parse to midnight UTC; the calendar fields *)
(* are read and written in the local time of the runtime, and the month    *)
(* names are those of its default locale: both are inputs (runtime).  A    *)
(* JavaScript number that can be the result of a division is modelled as   *)
(* the double that holds it, digit by digit, with Infinity, -Infinity and  *)
(* NaN; amounts of money and counts are whole numbers.  A draw of          *)
(* Math.random() is modelled in hundredths.                                *)
(***************************************************************************)
EXTENDS Integers, Sequences, FiniteSets

(***************************************************************************)
(* Bounds of the explored inputs.                                          *)
(***************************************************************************)
\* the start date is one of the MaxStartOffset + 1 days from FirstStartDay on
MaxStartOffset == 5
\* the end date is at most MaxSpan days after the start date
MaxSpan == 9
\* tradesPerDay ranges over 1 .. MaxTradesPerDay
MaxTradesPerDay == 2
\* a run with a win rate strictly between 0 and 100 has at most this many trades
MaxRandomTrades == 6
\* handleRerun is followed while simulationKey is below this
MaxSimulationKey == 3
\* handleSaveSettings is followed while fewer configurations than this are stored
MaxSavedConfigs == 1
\* a run submitted from the form is followed when it has at most this many trades
MaxAppTrades == 1
\* the clock of a session of the app is followed for this many steps
MaxClockSteps == 2

Abs(x) == IF x < 0 THEN -x ELSE x

(***************************************************************************)
(* The calendar behind Date.  A time value is a number of minutes since    *)
(* 1970-01-01T00:00Z; a day number is a number of whole days since then.   *)
(* The operations that are applied to the results of others are functions: *)
(* a function is applied to the value of its argument.                     *)
(***************************************************************************)
\* the day number of year, month (0-based), day; month and day may overflow
MakeDay[year \in Int, month \in Int, day \in Int] ==
    LET yy  == year + (month \div 12)
        mm  == (month % 12) + 1
        y   == IF mm <= 2 THEN yy - 1 ELSE yy
        era == y \div 400
        yoe == y - era * 400
        mp  == IF mm > 2 THEN mm - 3 ELSE mm + 9
        doy == (153 * mp + 2) \div 5
        doe == yoe * 365 + (yoe \div 4) - (yoe \div 100) + doy
    IN  era * 146097 + doe - 719468 + (day - 1)

\* the calendar fields of a day number
Civil[day \in Int] ==
    LET z   == day + 719468
        era == z \div 146097
        doe == z - era * 146097
        yoe == (doe - (doe \div 1460) + (doe \div 36524) - (doe \div 146096)) \div 365
        doy == doe - (365 * yoe + (yoe \div 4) - (yoe \div 100))
        mp  == (5 * doy + 2) \div 153
        m   == IF mp < 10 THEN mp + 3 ELSE mp - 9
    IN  [year  |-> yoe + era * 400 + (IF m <= 2 THEN 1 ELSE 0),
         month |-> m - 1,
         day   |-> doy - ((153 * mp + 2) \div 5) + 1]

\* 0 = Sunday .. 6 = Saturday; 1970-01-01 was a Thursday
WeekDay[day \in Int] == (day + 4) % 7

\* the day number of the first Sunday on or after a day, and of the last
\* Sunday of a month
SundayFrom[day \in Int] == day + ((7 - WeekDay[day]) % 7)
LastSunday[year \in Int, month \in Int] ==
    SundayFrom[MakeDay[year, month + 1, 1] - 7]

(***************************************************************************)
(* The runtime's time zone.  The calendar fields of a Date are read and    *)
(* written in local time: the offset from UTC, in minutes, follows the     *)
(* rules the zone has had from 2007 on.                                    *)
(***************************************************************************)
TimeZones == { "UTC", "America/New_York", "Europe/Berlin", "Asia/Kolkata",
               "Asia/Tokyo", "Pacific/Auckland" }

\* the offset outside daylight saving time
StandardOffset(timeZone) ==
    CASE timeZone = "UTC" -> 0
      [] timeZone = "America/New_York" -> -300
      [] timeZone = "Europe/Berlin" -> 60
      [] timeZone = "Asia/Kolkata" -> 330
      [] timeZone = "Asia/Tokyo" -> 540
      [] timeZone = "Pacific/Auckland" -> 720

\* daylight saving time is in force at time value t
DaylightSavingIn[timeZone \in TimeZones, year \in Int, t \in Int] ==
    CASE timeZone = "America/New_York" ->
           \* second Sunday of March 07:00Z to first Sunday of November 06:00Z
           /\ t >= SundayFrom[MakeDay[year, 2, 8]] * 1440 + 420
           /\ t < SundayFrom[MakeDay[year, 10, 1]] * 1440 + 360
      [] timeZone = "Europe/Berlin" ->
           \* last Sunday of March 01:00Z to last Sunday of October 01:00Z
           /\ t >= LastSunday[year, 2] * 1440 + 60
           /\ t < LastSunday[year, 9] * 1440 + 60
      [] timeZone = "Pacific/Auckland" ->
           \* until the first Sunday of April (until 2007 the third Sunday of
           \* March) and from the last Sunday of September on (before 2007
           \* the first Sunday of October), each at 14:00Z of the Saturday
           \* before
           \/ t < (IF year >= 2008 THEN SundayFrom[MakeDay[year, 3, 1]]
                   ELSE SundayFrom[MakeDay[year, 2, 15]]) * 1440 - 600
           \/ t >= (IF year >= 2007 THEN LastSunday[year, 8]
                    ELSE SundayFrom[MakeDay[year, 9, 1]]) * 1440 - 600
      [] OTHER -> FALSE

IsDaylightSaving[timeZone \in TimeZones, t \in Int] ==
    DaylightSavingIn[timeZone, Civil[t \div 1440].year, t]

Offset[timeZone \in TimeZones, t \in Int] ==
    StandardOffset(timeZone) + (IF IsDaylightSaving[timeZone, t] THEN 60 ELSE 0)

\* the local time of a time value, as the time value that reads the same in UTC
LocalTime[timeZone \in TimeZones, t \in Int] == t + Offset[timeZone, t]

\* the time value of a local time: the earlier one when the local time occurs
\* twice, the one with the offset before the transition when it is skipped
UTC[timeZone \in TimeZones, local \in Int] ==
    IF LocalTime[timeZone, local - StandardOffset(timeZone) - 60] = local
    THEN local - StandardOffset(timeZone) - 60
    ELSE local - StandardOffset(timeZone)

\* new Date(year, month, day): local midnight; a year from 0 to 99 is read
\* as 1900 + year
MakeDate(timeZone, year, month, day) ==
    UTC[timeZone, MakeDay[IF year \in 0 .. 99 THEN 1900 + year ELSE year,
                          month, day] * 1440]

LocalFields[timeZone \in TimeZones, date \in Int] ==
    Civil[LocalTime[timeZone, date] \div 1440]

getFullYear(timeZone, date) == LocalFields[timeZone, date].year
getMonth(timeZone, date) == LocalFields[timeZone, date].month
getDate(timeZone, date) == LocalFields[timeZone, date].day
getDay(timeZone, date) == WeekDay[LocalTime[timeZone, date] \div 1440]

\* date.setDate(day): the local time of day is kept
setDate(timeZone, date, day) ==
    UTC[timeZone, MakeDay[getFullYear(timeZone, date), getMonth(timeZone, date), day]
                    * 1440 + (LocalTime[timeZone, date] % 1440)]

\* date.setFullYear(year): month, day and local time of day are kept
setFullYear(timeZone, date, year) ==
    UTC[timeZone, MakeDay[year, getMonth(timeZone, date), getDate(timeZone, date)]
                    * 1440 + (LocalTime[timeZone, date] % 1440)]

\* an ISO date-only string "YYYY-MM-DD" as its three fields; it parses to
\* midnight UTC, and toISOString().split('T')[0] reads the UTC fields
IsoFields[day \in Int] ==
    << Civil[day].year, Civil[day].month + 1, Civil[day].day >>
IsoString(date) == IsoFields[date \div 1440]
ParseDate(iso) == MakeDay[iso[1], iso[2] - 1, iso[3]] * 1440

(***************************************************************************)
(* JavaScript numbers: doubles (IEEE 754 binary64).  A finite double that  *)
(* is not 0 is sign x M x 2^exp with MinExponent <= exp <= MaxExponent and *)
(* M an integer held as four digits of base 2^14, most significant first:  *)
(* 2^52 <= M < 2^53 (2^10 <= digits[1] < 2^11), or 0 < M < 2^52 at exp =   *)
(* MinExponent (a subnormal).  0 and -0 have no digits and a sign of 1 or  *)
(* -1.  Infinity, -Infinity and NaN have no digits either and are told     *)
(* apart by kind.  Every operation rounds its exact result to nearest,     *)
(* ties to even: a result of 2^1024 or more in magnitude is an Infinity,   *)
(* one below 2^-1022 keeps fewer digits, one of 2^-1075 or less is a 0.    *)
(***************************************************************************)
MantissaBits == 53
LimbBits == 14
Base == 16384
MantissaLimbs == 4
\* the exponents of the last digit of the largest and of the smallest doubles
MaxExponent == 971
MinExponent == -1074

Sign(k) == IF k > 0 THEN 1 ELSE IF k < 0 THEN -1 ELSE 0

\* a natural number as digits of base 2^14, most significant first
Bigs == Seq(Nat)

Zeros(k) == [b \in 1 .. k |-> 0]
Front(a) == SubSeq(a, 1, Len(a) - 1)
Last(a) == a[Len(a)]
Pad(a, len) == Zeros(len - Len(a)) \o a

\* without leading zeros
Strip[a \in Bigs] == IF a = << >> \/ a[1] # 0 THEN a ELSE Strip[Tail(a)]

\* the digits of an integer 0 <= k < 2^31
DigitsOfInt(k) == << k \div (Base * Base), (k \div Base) % Base, k % Base >>

\* the integer of digits, below 2^31
IntOfDigits[a \in Bigs] ==
    IF a = << >> THEN 0 ELSE Base * IntOfDigits[Front(a)] + Last(a)

\* a + b + carry for two numbers of equal length; one digit more
AddDigits[a \in Bigs, b \in Bigs, carry \in Nat] ==
    IF a = << >> THEN << carry >>
    ELSE Append(AddDigits[Front(a), Front(b), (Last(a) + Last(b) + carry) \div Base],
                (Last(a) + Last(b) + carry) % Base)

\* a - b - borrow for two numbers of equal length, a >= b + borrow
SubDigits[a \in Bigs, b \in Bigs, borrow \in Nat] ==
    IF a = << >> THEN << >>
    ELSE Append(SubDigits[Front(a), Front(b),
                          IF Last(a) < Last(b) + borrow THEN 1 ELSE 0],
                (Last(a) - Last(b) - borrow) % Base)

\* a > b for two numbers of equal length
GreaterDigits(a, b) ==
    \E k \in DOMAIN a :
        /\ a[k] > b[k]
        /\ \A h \in 1 .. (k - 1) : a[h] = b[h]

\* a x k + carry for k <= 2^14; one digit more
MulSmall[a \in Bigs, k \in Nat, carry \in Nat] ==
    IF a = << >> THEN << carry >>
    ELSE Append(MulSmall[Front(a), k, (Last(a) * k + carry) \div Base],
                (Last(a) * k + carry) % Base)

\* (rest x Base^Len(a) + a) \div k for rest < k <= 2^14
DivSmall[a \in Bigs, k \in Nat, rest \in Nat] ==
    IF a = << >> THEN << >>
    ELSE << (rest * Base + a[1]) \div k >>
            \o DivSmall[Tail(a), k, (rest * Base + a[1]) % k]

\* a x 2^s and a \div 2^s
ShiftLeft(a, s) ==
    MulSmall[a \o Zeros(s \div LimbBits), 2 ^ (s % LimbBits), 0]
ShiftRight(a, s) ==
    DivSmall[SubSeq(a, 1, Len(a) - s \div LimbBits), 2 ^ (s % LimbBits), 0]

\* a + b
Sum(a, b) ==
    IF Len(a) >= Len(b) THEN Strip[AddDigits[a, Pad(b, Len(a)), 0]]
    ELSE Strip[AddDigits[Pad(a, Len(b)), b, 0]]

\* acc x Base^Len(b) + a x b
MulDigits[a \in Bigs, b \in Bigs, acc \in Bigs] ==
    IF b = << >> THEN acc
    ELSE MulDigits[a, Tail(b), Sum(Append(acc, 0), MulSmall[a, b[1], 0])]

\* the number of binary digits of one digit, and of a number without leading
\* zeros
BitsOfDigit[v \in Nat] == IF v = 0 THEN 0 ELSE 1 + BitsOfDigit[v \div 2]
BitLength(a) ==
    IF a = << >> THEN 0 ELSE LimbBits * (Len(a) - 1) + BitsOfDigit[a[1]]

MinMantissa == << 1024, 0, 0, 0 >>
MaxMantissa == << 2047, 16383, 16383, 16383 >>
One == << 0, 0, 0, 1 >>

Binary64Zero == [kind |-> "finite", sign |-> 1, digits |-> << >>, exp |-> 0]
NaN == [kind |-> "nan", sign |-> 0, digits |-> << >>, exp |-> 0]
Infinity == [kind |-> "infinite", sign |-> 1, digits |-> << >>, exp |-> 0]

IsNaN(x) == x.kind = "nan"
IsFinite(x) == x.kind = "finite"
\* 0 or -0
IsZero(x) == x.kind = "finite" /\ x.digits = << >>

\* the double sign x M x 2^exp of a mantissa 0 <= M < 2^53 at an exponent >=
\* MinExponent: a 0 when M is 0, an Infinity above MaxExponent
Finite(sign, digits, exp) ==
    IF Strip[digits] = << >> THEN [Binary64Zero EXCEPT !.sign = sign]
    ELSE IF exp > MaxExponent THEN [Infinity EXCEPT !.sign = sign]
    ELSE [kind |-> "finite", sign |-> sign,
          digits |-> Pad(Strip[digits], MantissaLimbs), exp |-> exp]
\* M + 1 of a mantissa: 2^53 is 2^52 x 2
Successor(digits, exp) ==
    IF digits = MaxMantissa THEN Finite(1, MinMantissa, exp + 1)
    ELSE Finite(1, Tail(AddDigits[Pad(digits, MantissaLimbs), One, 0]), exp)

\* the double nearest to (A + f) x 2^exp, A > 0 the integer of a (no leading
\* zeros, len binary digits), 0 <= f < 1, f # 0 iff sticky: s binary digits
\* of A are cut, kept are the others and guard has the first one cut as well
RoundKept[kept, guard, a \in Bigs, s \in Nat, exp \in Int, sticky \in BOOLEAN] ==
    IF /\ guard # << >>
       /\ Last(guard) % 2 = 1
       /\ \/ sticky
          \/ kept # << >> /\ Last(kept) % 2 = 1
          \/ Strip[ShiftLeft(guard, s - 1)] # a
    THEN Successor(Strip[kept], exp + s)
    ELSE Finite(1, kept, exp + s)
\* the last digit of the result has the exponent that leaves 53 binary
\* digits, and MinExponent when that is lower
RoundLength[a \in Bigs, len \in Nat, exp \in Int, sticky \in BOOLEAN] ==
    LET last == IF exp + len - MantissaBits < MinExponent THEN MinExponent
                ELSE exp + len - MantissaBits
    IN  IF last <= exp
        THEN Finite(1, Strip[ShiftLeft(a, exp - last)], last)
        ELSE RoundKept[ShiftRight(a, last - exp), ShiftRight(a, last - exp - 1),
                       a, last - exp, exp, sticky]
RoundStripped[a \in Bigs, exp \in Int, sticky \in BOOLEAN] ==
    RoundLength[a, BitLength(a), exp, sticky]
RoundToNearestEven(a, exp, sticky) == RoundStripped[Strip[a], exp, sticky]

\* what holds a double; the operations are functions on it
Doubles ==
    [kind : {"finite", "infinite", "nan"}, sign : {-1, 0, 1},
     digits : Bigs, exp : Int]

\* an integer as a double
Binary64OfInt(k) ==
    IF k = 0 THEN Binary64Zero
    ELSE [RoundToNearestEven(DigitsOfInt(Abs(k)), 0, FALSE) EXCEPT !.sign = Sign(k)]

\* an integer as a Number
Num(k) == Binary64OfInt(k)

\* -x
Negated(x) == [x EXCEPT !.sign = -@]

\* the sum of two finite doubles that are not 0: the exact sum of the two
\* integers at the lower exponent, rounded; an addend below a quarter of the
\* other's last digit changes nothing
Binary64Add[x \in Doubles, y \in Doubles] ==
    IF x.exp - y.exp > MantissaBits + 2 THEN x
    ELSE IF y.exp - x.exp > MantissaBits + 2 THEN y
    ELSE LET exp == IF x.exp < y.exp THEN x.exp ELSE y.exp
             len == MantissaLimbs + 5
             a   == Pad(Strip[ShiftLeft(x.digits, x.exp - exp)], len)
             b   == Pad(Strip[ShiftLeft(y.digits, y.exp - exp)], len)
         IN  IF x.sign = y.sign
             THEN [RoundToNearestEven(AddDigits[a, b, 0], exp, FALSE)
                     EXCEPT !.sign = x.sign]
             ELSE IF a = b THEN Binary64Zero
             ELSE IF GreaterDigits(a, b)
             THEN [RoundToNearestEven(SubDigits[a, b, 0], exp, FALSE)
                     EXCEPT !.sign = x.sign]
             ELSE [RoundToNearestEven(SubDigits[b, a, 0], exp, FALSE)
                     EXCEPT !.sign = y.sign]

\* a + b and a - b of JavaScript: Infinity - Infinity is NaN, -0 + -0 is -0
\* and every other sum of zeros is 0
Plus[x \in Doubles, y \in Doubles] ==
    IF IsNaN(x) \/ IsNaN(y) THEN NaN
    ELSE IF x.kind = "infinite"
    THEN IF y.kind = "infinite" /\ y.sign # x.sign THEN NaN ELSE x
    ELSE IF y.kind = "infinite" THEN y
    ELSE IF IsZero(x)
    THEN IF IsZero(y) /\ x.sign # y.sign THEN Binary64Zero ELSE y
    ELSE IF IsZero(y) THEN x
    ELSE Binary64Add[x, y]
JsAdd(a, b) == Plus[a, b]
JsSub(a, b) == Plus[a, Negated(b)]

\* a * b of JavaScript: the exact product of the two integers, rounded;
\* Infinity * 0 is NaN, and a product that is 0 has the sign of the product
Times[x \in Doubles, y \in Doubles] ==
    IF IsNaN(x) \/ IsNaN(y) THEN NaN
    ELSE IF x.kind = "infinite" \/ y.kind = "infinite"
    THEN IF IsZero(x) \/ IsZero(y) THEN NaN
         ELSE [Infinity EXCEPT !.sign = x.sign * y.sign]
    ELSE IF IsZero(x) \/ IsZero(y)
    THEN [Binary64Zero EXCEPT !.sign = x.sign * y.sign]
    ELSE [RoundToNearestEven(MulDigits[x.digits, y.digits, << >>],
                             x.exp + y.exp, FALSE)
            EXCEPT !.sign = x.sign * y.sign]
JsMul(a, b) == Times[a, b]

\* long division of two mantissas, each number held as high x 2^28 + low:
\* after steps more binary digits the quotient and whether nothing is left
HalfBase == 268435456
LongDivision[restHigh, restLow, high, low, quotientHigh, quotientLow, steps \in Nat] ==
    IF steps = 0
    THEN [digits |-> << quotientHigh \div Base, quotientHigh % Base,
                         quotientLow \div Base, quotientLow % Base >>,
          sticky |-> restHigh # 0 \/ restLow # 0]
    ELSE IF restHigh > high \/ (restHigh = high /\ restLow >= low)
    THEN LongDivision[
            2 * (restHigh - high - (IF restLow < low THEN 1 ELSE 0))
                + (2 * ((restLow - low) % HalfBase)) \div HalfBase,
            (2 * ((restLow - low) % HalfBase)) % HalfBase,
            high, low,
            2 * quotientHigh + (2 * quotientLow + 1) \div HalfBase,
            (2 * quotientLow + 1) % HalfBase,
            steps - 1]
    ELSE LongDivision[
            2 * restHigh + (2 * restLow) \div HalfBase,
            (2 * restLow) % HalfBase,
            high, low,
            2 * quotientHigh + (2 * quotientLow) \div HalfBase,
            (2 * quotientLow) % HalfBase,
            steps - 1]
High(digits) == digits[1] * Base + digits[2]
Low(digits) == digits[3] * Base + digits[4]

\* how many binary digits a mantissa lacks to 53, and a finite double that is
\* not 0 with its mantissa brought to 53 binary digits (its exponent may then
\* be below MinExponent)
Lacking(digits) == MantissaBits - BitLength(Strip[digits])
Normalised(x) ==
    [x EXCEPT !.digits = Strip[ShiftLeft(x.digits, Lacking(x.digits))],
              !.exp = @ - Lacking(x.digits)]

\* x / y of two finite doubles that are not 0
Binary64Div[x \in Doubles, y \in Doubles] ==
    LET a == Normalised(x)
        b == Normalised(y)
        q == LongDivision[High(a.digits), Low(a.digits),
                          High(b.digits), Low(b.digits),
                          0, 0, MantissaBits + 3]
    IN  [RoundToNearestEven(q.digits, a.exp - b.exp - (MantissaBits + 2), q.sticky)
           EXCEPT !.sign = x.sign * y.sign]

\* a / b of JavaScript: x / 0 is Infinity or -Infinity, 0 / 0 and Infinity /
\* Infinity are NaN, and a quotient that is 0 has the sign of the quotient
Quotient[x \in Doubles, y \in Doubles] ==
    IF IsNaN(x) \/ IsNaN(y) THEN NaN
    ELSE IF x.kind = "infinite"
    THEN IF y.kind = "infinite" THEN NaN
         ELSE [Infinity EXCEPT !.sign = x.sign * y.sign]
    ELSE IF y.kind = "infinite" \/ (IsZero(x) /\ ~IsZero(y))
    THEN [Binary64Zero EXCEPT !.sign = x.sign * y.sign]
    ELSE IF IsZero(y)
    THEN IF IsZero(x) THEN NaN ELSE [Infinity EXCEPT !.sign = x.sign * y.sign]
    ELSE Binary64Div[x, y]
JsDiv(a, b) == Quotient[a, b]

\* the magnitude of x is larger than that of y, for two Numbers that are
\* neither 0 nor NaN
Larger(x, y) ==
    IF x.kind = "infinite" \/ y.kind = "infinite"
    THEN y.kind = "finite"
    ELSE \/ x.exp > y.exp
         \/ x.exp = y.exp /\ GreaterDigits(x.digits, y.digits)

\* a > b and a >= b of JavaScript: false when either side is NaN; 0 and -0
\* are equal
Greater[x \in Doubles, y \in Doubles] ==
    IF IsNaN(x) \/ IsNaN(y) THEN FALSE
    ELSE IF IsZero(x) THEN ~IsZero(y) /\ y.sign = -1
    ELSE IF IsZero(y) THEN x.sign = 1
    ELSE IF x.sign # y.sign THEN x.sign > y.sign
    ELSE IF x.sign = 1 THEN Larger(x, y)
    ELSE Larger(y, x)
JsGt(a, b) == Greater[a, b]
JsGe(a, b) == ~IsNaN(a) /\ ~IsNaN(b) /\ ~Greater[b, a]

\* a || b of JavaScript on numbers: 0, -0 and NaN are falsy
JsOr(a, b) == IF IsNaN(a) \/ IsZero(a) THEN b ELSE a

\* the hundredths of a double 0 <= x < 2^21 cut off, not rounded
ToFixed2Truncated[x \in Doubles] ==
    IF IsZero(x) THEN 0
    ELSE IntOfDigits[Strip[ShiftRight(MulSmall[x.digits, 100, 0], -x.exp)]]
\* x.toFixed(2) of a double 0 <= x < 2^21, as a count of hundredths: the
\* integer n with n / 100 nearest to the exact value of x, the larger one of two
ToFixed2[x \in Doubles] ==
    IF IsZero(x) THEN 0
    ELSE (IntOfDigits[Strip[ShiftRight(MulSmall[x.digits, 100, 0], -x.exp - 1)]] + 1)
            \div 2

(***************************************************************************)
(* generateDates.                                                          *)
(***************************************************************************)
\* toLocaleString('default', { month: 'short' }): the month of the local date,
\* named in the runtime's default locale
MonthNames(locale) ==
    CASE locale = "en-US" ->
           << "Jan", "Feb", "Mar", "Apr", "May", "Jun",
              "Jul", "Aug", "Sep", "Oct", "Nov", "Dec" >>
      [] locale = "de-DE" ->
           << "Jan", "Feb", "Mär", "Apr", "Mai", "Jun",
              "Jul", "Aug", "Sep", "Okt", "Nov", "Dez" >>
MonthShort(rt, date) == MonthNames(rt.locale)[getMonth(rt.timeZone, date) + 1]

\* Math.ceil((pastDaysOfYear + firstDayOfYear.getDay() + 1) / 7), where
\* pastDaysOfYear is a number of days with a fraction: counted in minutes,
\* the week is the ceiling of (past + 1440 (getDay() + 1)) / (7 x 1440)
WeekNumber(rt, currentDate) ==
    LET firstDayOfYear == MakeDate(rt.timeZone, getFullYear(rt.timeZone, currentDate), 0, 1)
        pastMinutesOfYear == currentDate - firstDayOfYear
    IN  (pastMinutesOfYear + 1440 * (getDay(rt.timeZone, firstDayOfYear) + 1) + 10079)
            \div 10080

DateInfo(rt, currentDate) ==
    LET month == MonthShort(rt, currentDate)
        day   == getDate(rt.timeZone, currentDate)
        year  == getFullYear(rt.timeZone, currentDate)
    IN  [fullDate |-> << month, day, year >>,
         month    |-> << month, year >>,
         week     |-> << "Week", WeekNumber(rt, currentDate), year >>,
         dateObj  |-> currentDate]

IsWeekend(timeZone, date) == ~(getDay(timeZone, date) # 0 /\ getDay(timeZone, date) # 6)

\* while (currentDate <= endDate) { ...; currentDate.setDate(getDate() + 1) };
\* one iteration works on the values of currentDate and dates, which the set
\* constructor binds
RECURSIVE DatesLoop(_, _, _, _)
DatesLoop(rt, currentDate, endDate, dates) ==
    LET Iteration(date, list) ==
            IF date <= endDate
            THEN DatesLoop(rt,
                           setDate(rt.timeZone, date, getDate(rt.timeZone, date) + 1),
                           endDate,
                           IF ~IsWeekend(rt.timeZone, date)
                           THEN Append(list, DateInfo(rt, date))
                           ELSE list)
            ELSE list
    IN  CHOOSE result \in { Iteration(date, list) :
                               date \in {currentDate}, list \in {dates} } : TRUE

generateDates(rt, startDate, endDate) == DatesLoop(rt, startDate, endDate, << >>)

(***************************************************************************)
(* State.                                                                  *)
(***************************************************************************)
VARIABLES
    params,          \* the SimulationSettings handed to the component
    pc,              \* "mounted", "loop" (inside the effect's day loop), "done"
    dates,           \* generateDates(startDate, endDate)
    i, j,            \* the loop counters of the day loop and the trade loop
    dayEquity, runningEquity,
    equityCurve,
    monthlyStats, weeklyStats,   \* the bucket records, in insertion order
    totalWins, totalLosses, totalTrades,
    streaks,         \* the streak trackers of lines 105-115
    drawdown,        \* the drawdown trackers of lines 117-124
    stats,           \* the component's stats state
    simulationKey,   \* the re-run token of AnnualTradingResults
    effectRuns,      \* history: how often the effect ran since the mount
    outcomes,        \* history: the isWin values of the current run, in order
    draws,           \* history: the draws of the current run (SpecRerun only)
    reference,       \* history: one earlier run of this mount (SpecRerun only)
    showResults,     \* TradingSimulationApp: the results view is shown
    settings,        \* TradingSimulationSettings: the form's settings state
    savedConfigs,    \* TradingSimulationSettings: the saved configurations
    runtime,         \* the runtime's time zone and default locale
    now              \* the time value new Date() gives when the form mounts

\* the state of the effect's run
engineVars == << dates, i, j, dayEquity, runningEquity, equityCurve,
                 monthlyStats, weeklyStats, totalWins, totalLosses, totalTrades,
                 streaks, drawdown, outcomes >>
rerunVars == << simulationKey, effectRuns, draws, reference >>
shellVars == << showResults, settings, savedConfigs >>
\* what the program reads from its environment: the runtime, and the clock,
\* which goes on while the program runs
envVars == << runtime, now >>

vars == << params, pc, stats, engineVars, rerunVars, shellVars, envVars >>

\* null, and the 'N/A' that replaces it in a period string
Null == << >>
NA == << "N/A" >>

(***************************************************************************)
(* Inputs.                                                                 *)
(***************************************************************************)
WinRates == {0, 50, 100}
TradesPerDay == 1 .. MaxTradesPerDay
\* the Number a decimal text with one digit after the point parses to: the
\* double nearest to k / 10
Tenths(k) == JsDiv(Num(k), Num(10))
\* 1e308, the double that the text "1e308" parses to
TenTo308 == Finite(1, << 1139, 3896, 6063, 2208 >>, MaxExponent)
\* 100 and 250.1, and 1e308: the field takes any decimal (step="any") and
\* has no largest value
EverydayAmounts == { Num(100), Tenths(2501) }
RiskAmounts == EverydayAmounts \cup { TenTo308 }
RiskRewardRatios == {1, 2}
StartingEquities == { Num(0), Num(1000) }
\* Math.random() is in [0, 1): hundredths 0 .. 99
Draws == {0, 50, 99}

\* the runtimes of the engine's runs
Runtimes ==
    { [timeZone |-> "UTC", locale |-> "en-US"],
      [timeZone |-> "America/New_York", locale |-> "en-US"],
      [timeZone |-> "Europe/Berlin", locale |-> "de-DE"] }

\* Friday 2024-12-27: the ranges cross a weekend, a month end and a year end;
\* in Berlin, Friday 2025-10-24: the ranges cross a weekend, the end of
\* daylight saving time (Sunday 2025-10-26) and a month end
FirstStartDay(timeZone) ==
    IF timeZone = "Europe/Berlin" THEN ParseDate(<< 2025, 10, 24 >>)
    ELSE ParseDate(<< 2024, 12, 27 >>)
StartDays(timeZone) ==
    { FirstStartDay(timeZone) + 1440 * k : k \in 0 .. MaxStartOffset }

\* a start date in a year below 100, as a date input takes it: "0050-03-01"
EarlyStartDay == ParseDate(<< 50, 3, 1 >>)

\* every combination of the whole-number inputs in UTC, every range with one
\* ratio and one starting equity in the other time zones and in the year 50,
\* and in UTC every range with the risk 250.1, from 1000, the first ones
\* from the 50000 the form starts with, and the first ones with the risk
\* 1e308
Settings(timeZone) ==
    { [winRate |-> w, tradesPerDay |-> t, riskRewardRatio |-> r,
       riskPerTrade |-> Num(100), startingEquity |-> e,
       startDate |-> IsoString(s), endDate |-> IsoString(s + 1440 * n)] :
        w \in WinRates, t \in TradesPerDay,
        r \in IF timeZone = "UTC" THEN RiskRewardRatios ELSE {2},
        e \in IF timeZone = "UTC" THEN StartingEquities ELSE { Num(1000) },
        s \in StartDays(timeZone), n \in (-1) .. MaxSpan }
    \cup
    { [winRate |-> w, tradesPerDay |-> 1, riskRewardRatio |-> 2,
       riskPerTrade |-> Num(100), startingEquity |-> Num(1000),
       startDate |-> IsoString(EarlyStartDay),
       endDate |-> IsoString(EarlyStartDay + 1440 * n)] :
        w \in WinRates, n \in IF timeZone = "UTC" THEN 0 .. MaxSpan ELSE {} }
    \cup
    { [winRate |-> w, tradesPerDay |-> t, riskRewardRatio |-> 2,
       riskPerTrade |-> a, startingEquity |-> Num(1000),
       startDate |-> IsoString(s), endDate |-> IsoString(s + 1440 * n)] :
        w \in WinRates, t \in TradesPerDay, a \in EverydayAmounts,
        s \in IF timeZone = "UTC" THEN StartDays(timeZone) ELSE {},
        n \in (-1) .. MaxSpan }
    \cup
    { [winRate |-> w, tradesPerDay |-> t, riskRewardRatio |-> 1,
       riskPerTrade |-> a, startingEquity |-> Num(50000),
       startDate |-> IsoString(FirstStartDay(timeZone)),
       endDate |-> IsoString(FirstStartDay(timeZone) + 1440 * n)] :
        w \in WinRates, t \in TradesPerDay, a \in EverydayAmounts,
        n \in IF timeZone = "UTC" THEN 0 .. 3 ELSE {} }
    \cup
    { [winRate |-> w, tradesPerDay |-> t, riskRewardRatio |-> r,
       riskPerTrade |-> a, startingEquity |-> Num(1000),
       startDate |-> IsoString(FirstStartDay(timeZone)),
       endDate |-> IsoString(FirstStartDay(timeZone) + 1440 * n)] :
        w \in WinRates, t \in TradesPerDay, r \in RiskRewardRatios,
        a \in RiskAmounts, n \in IF timeZone = "UTC" THEN 0 .. 3 ELSE {} }

\* the number of trials a run with these settings draws
TrialCount(rt, p) ==
    Len(generateDates(rt, ParseDate(p.startDate), ParseDate(p.endDate)))
        * p.tradesPerDay

\* the runs that are followed: a run with a win rate strictly between 0 and
\* 100 has at most MaxRandomTrades trials
Followed(rt, p) == p.winRate \in {0, 100} \/ TrialCount(rt, p) <= MaxRandomTrades

\* Wednesday 2025-01-08, 12:00 UTC
FirstNow == ParseDate(<< 2025, 1, 8 >>) + 720

InitialStats ==
    [winRate |-> Num(0), avgRPerDay |-> Num(0), avgRPerWeek |-> Num(0),
     avgTradesPerDay |-> Num(0), initialEquity |-> Num(0),
     finalEquity |-> Num(0), totalProfit |-> Num(0), maxWinStreak |-> 0, maxLossStreak |-> 0,
     maxDrawdown |-> Num(0), maxDrawdownPeriod |-> << >>,
     maxWinStreakPeriod |-> << >>, maxLossStreakPeriod |-> << >>,
     equityCurve |-> << >>, monthlyBreakdown |-> << >>,
     weeklyBreakdown |-> << >>, totalTrades |-> 0, riskRewardRatio |-> 0]

InitialStreaks ==
    [currentWinStreak |-> 0, currentLossStreak |-> 0,
     maxWinStreak |-> 0, maxLossStreak |-> 0,
     winStreakStart |-> Null, lossStreakStart |-> Null,
     maxWinStreakStart |-> Null, maxWinStreakEnd |-> Null,
     maxLossStreakStart |-> Null, maxLossStreakEnd |-> Null]

InitialDrawdown(initialEquity) ==
    [peakEquity |-> initialEquity, currentDrawdown |-> Num(0),
     maxDrawdown |-> Num(0), drawdownStart |-> Null, drawdownEnd |-> Null,
     maxDrawdownStart |-> Null, maxDrawdownEnd |-> Null]

\* no earlier run is remembered
NoReference == [key |-> 0]
\* the settings form is not mounted while the results view is shown
Unmounted == [mounted |-> FALSE]

\* the trackers before the effect has run, and the component's fresh state
EngineFresh ==
    /\ dates = << >>
    /\ i = 0
    /\ j = 0
    /\ dayEquity = Num(0)
    /\ runningEquity = Num(0)
    /\ equityCurve = << >>
    /\ monthlyStats = << >>
    /\ weeklyStats = << >>
    /\ totalWins = 0
    /\ totalLosses = 0
    /\ totalTrades = 0
    /\ streaks = InitialStreaks
    /\ drawdown = InitialDrawdown(Num(0))
    /\ stats = InitialStats
    /\ simulationKey = 1
    /\ effectRuns = 0
    /\ outcomes = << >>
    /\ draws = << >>
    /\ reference = NoReference

\* AnnualTradingResults mounted with params, the settings form replaced by it
Init ==
    /\ runtime \in Runtimes
    /\ now = FirstNow
    /\ params \in { p \in Settings(runtime.timeZone) : Followed(runtime, p) }
    /\ pc = "mounted"
    /\ EngineFresh
    /\ showResults = TRUE
    /\ settings = Unmounted
    /\ savedConfigs = << >>

(***************************************************************************)
(* The effect up to the day loop (lines 41-159).                           *)
(***************************************************************************)
NewBucketMonth(monthKey) ==
    [month |-> monthKey, wins |-> 0, losses |-> 0, profitLoss |-> Num(0),
     trades |-> 0]
NewBucketWeek(weekKey) ==
    [week |-> weekKey, wins |-> 0, losses |-> 0, profitLoss |-> Num(0),
     trades |-> 0]

\* dates.forEach: a bucket is added for a key that has none yet
RECURSIVE RegisterMonthsFront(_, _, _)
RegisterMonthsFront(ds, k, acc) ==
    IF k > Len(ds) THEN acc
    ELSE RegisterMonthsFront(ds, k + 1,
            IF \E b \in DOMAIN acc : acc[b].month = ds[k].month
            THEN acc ELSE << [month |-> ds[k].month, wins |-> 0, losses |-> 0,
                              profitLoss |-> Num(0), trades |-> 0] >> \o acc)

RECURSIVE RegisterMonths(_, _, _)
RegisterMonths(ds, k, acc) ==
    IF k > Len(ds) THEN acc
    ELSE RegisterMonths(ds, k + 1,
            IF \E b \in DOMAIN acc : acc[b].month = ds[k].month
            THEN acc ELSE Append(acc, NewBucketMonth(ds[k].month)))

RECURSIVE RegisterWeeks(_, _, _)
RegisterWeeks(ds, k, acc) ==
    IF k > Len(ds) THEN acc
    ELSE RegisterWeeks(ds, k + 1,
            IF \E b \in DOMAIN acc : acc[b].week = ds[k].week
            THEN acc ELSE Append(acc, NewBucketWeek(ds[k].week)))

EquityPointStale(date, equity) ==
    [date |-> date.fullDate, equity |-> runningEquity, month |-> date.month,
     week |-> date.week]
EquityPoint(date, equity) ==
    [date |-> date.fullDate, equity |-> equity, month |-> date.month, week |-> date.week]

SeedCurveEmpty(ds, initialEquity) == << >>
SeedCurveKept(ds, initialEquity) ==
    IF equityCurve # << >> THEN equityCurve
    ELSE IF Len(ds) > 0 THEN << EquityPoint(ds[1], initialEquity) >> ELSE << >>
SeedCurve(ds, initialEquity) ==
    IF Len(ds) > 0 THEN << EquityPoint(ds[1], initialEquity) >> ELSE << >>

RunEffect ==
    /\ pc = "mounted"
    /\ \E initialEquity \in { params.startingEquity },
          \* new Date(params.startDate), new Date(params.endDate)
          ds \in { generateDates(runtime, ParseDate(params.startDate),
                                 ParseDate(params.endDate)) } :
           /\ dates' = ds
           /\ runningEquity' = initialEquity
           /\ dayEquity' = initialEquity
           /\ equityCurve' = SeedCurve(ds, initialEquity)
           /\ monthlyStats' = RegisterMonths(ds, 1, << >>)
           /\ weeklyStats' = RegisterWeeks(ds, 1, << >>)
           /\ drawdown' = InitialDrawdown(initialEquity)
    /\ totalWins' = 0
    /\ totalLosses' = 0
    /\ totalTrades' = 0
    /\ streaks' = InitialStreaks
    /\ i' = 0
    /\ j' = 0
    /\ outcomes' = << >>
    /\ draws' = << >>
    /\ effectRuns' = effectRuns + 1
    /\ pc' = "loop"
    /\ UNCHANGED << params, stats, simulationKey, reference, shellVars, envVars >>

(***************************************************************************)
(* One trade (one iteration of the loop of lines 168-217).                 *)
(***************************************************************************)
\* the Numbers k / 100: params.winRate / 100 and the draws of Math.random()
Hundredths == [k \in 0 .. 100 |-> JsDiv(Num(k), Num(100))]

\* Math.random() < targetWinRate, with targetWinRate = params.winRate / 100
IsWinReversed(draw, winRate) ==
    JsGt(Hundredths[draw], Hundredths[winRate])
IsWinInclusive(draw, winRate) ==
    JsGe(Hundredths[winRate], Hundredths[draw])
IsWin(draw, winRate) ==
    JsGt(Hundredths[winRate], Hundredths[draw])

\* the bucket of the day after one trade: wins or losses, profitLoss, trades
BucketTradeUncountedLoss(b, isWin, rewardPerTrade, riskPerTrade) ==
    IF isWin
    THEN [b EXCEPT !.wins = @ + 1, !.profitLoss = JsAdd(@, rewardPerTrade),
                   !.trades = @ + 1]
    ELSE [b EXCEPT !.profitLoss = JsSub(@, riskPerTrade), !.trades = @ + 1]
BucketTradeGrossProfit(b, isWin, rewardPerTrade, riskPerTrade) ==
    IF isWin
    THEN [b EXCEPT !.wins = @ + 1, !.profitLoss = JsAdd(@, rewardPerTrade),
                   !.trades = @ + 1]
    ELSE [b EXCEPT !.losses = @ + 1, !.trades = @ + 1]
BucketTrade(b, isWin, rewardPerTrade, riskPerTrade) ==
    IF isWin
    THEN [b EXCEPT !.wins = @ + 1, !.profitLoss = JsAdd(@, rewardPerTrade),
                   !.trades = @ + 1]
    ELSE [b EXCEPT !.losses = @ + 1, !.profitLoss = JsSub(@, riskPerTrade),
                   !.trades = @ + 1]

\* the streak trackers after one trade on the day labelled fullDate
StreakTradeNoReset(s, isWin, fullDate) ==
    IF isWin
    THEN LET start == IF s.currentWinStreak = 0 THEN fullDate ELSE s.winStreakStart
             cur   == s.currentWinStreak + 1
             s1    == [s EXCEPT !.winStreakStart = start, !.currentWinStreak = cur]
         IN  IF cur > s.maxWinStreak
             THEN [s1 EXCEPT !.maxWinStreak = cur, !.maxWinStreakStart = start,
                             !.maxWinStreakEnd = fullDate]
             ELSE s1
    ELSE LET start == IF s.currentLossStreak = 0 THEN fullDate ELSE s.lossStreakStart
             cur   == s.currentLossStreak + 1
             s1    == [s EXCEPT !.lossStreakStart = start, !.currentLossStreak = cur,
                                !.currentWinStreak = 0]
         IN  IF cur > s.maxLossStreak
             THEN [s1 EXCEPT !.maxLossStreak = cur, !.maxLossStreakStart = start,
                             !.maxLossStreakEnd = fullDate]
             ELSE s1
StreakTradeLatest(s, isWin, fullDate) ==
    IF isWin
    THEN LET start == IF s.currentWinStreak = 0 THEN fullDate ELSE s.winStreakStart
             cur   == s.currentWinStreak + 1
             s1    == [s EXCEPT !.winStreakStart = start, !.currentWinStreak = cur,
                                !.currentLossStreak = 0]
         IN  IF cur >= s.maxWinStreak
             THEN [s1 EXCEPT !.maxWinStreak = cur, !.maxWinStreakStart = start,
                             !.maxWinStreakEnd = fullDate]
             ELSE s1
    ELSE LET start == IF s.currentLossStreak = 0 THEN fullDate ELSE s.lossStreakStart
             cur   == s.currentLossStreak + 1
             s1    == [s EXCEPT !.lossStreakStart = start, !.currentLossStreak = cur,
                                !.currentWinStreak = 0]
         IN  IF cur >= s.maxLossStreak
             THEN [s1 EXCEPT !.maxLossStreak = cur, !.maxLossStreakStart = start,
                             !.maxLossStreakEnd = fullDate]
             ELSE s1
StreakTrade(s, isWin, fullDate) ==
    IF isWin
    THEN LET start == IF s.currentWinStreak = 0 THEN fullDate ELSE s.winStreakStart
             cur   == s.currentWinStreak + 1
             s1    == [s EXCEPT !.winStreakStart = start, !.currentWinStreak = cur,
                                !.currentLossStreak = 0]
         IN  IF cur > s.maxWinStreak
             THEN [s1 EXCEPT !.maxWinStreak = cur, !.maxWinStreakStart = start,
                             !.maxWinStreakEnd = fullDate]
             ELSE s1
    ELSE LET start == IF s.currentLossStreak = 0 THEN fullDate ELSE s.lossStreakStart
             cur   == s.currentLossStreak + 1
             s1    == [s EXCEPT !.lossStreakStart = start, !.currentLossStreak = cur,
                                !.currentWinStreak = 0]
         IN  IF cur > s.maxLossStreak
             THEN [s1 EXCEPT !.maxLossStreak = cur, !.maxLossStreakStart = start,
                             !.maxLossStreakEnd = fullDate]
             ELSE s1

TradeStep(draw) ==
    /\ pc = "loop"
    /\ i < Len(dates)
    /\ j < params.tradesPerDay
    /\ LET date == dates[i + 1]
           riskPerTrade == params.riskPerTrade
           rewardPerTrade == JsMul(riskPerTrade, Num(params.riskRewardRatio))
           isWin == IsWin(draw, params.winRate)
       IN  /\ dayEquity' = IF isWin THEN JsAdd(dayEquity, rewardPerTrade)
                                    ELSE JsSub(dayEquity, riskPerTrade)
           /\ totalWins' = IF isWin THEN totalWins + 1 ELSE totalWins
           /\ totalLosses' = IF isWin THEN totalLosses ELSE totalLosses + 1
           /\ monthlyStats' =
                [b \in DOMAIN monthlyStats |->
                    IF monthlyStats[b].month = date.month
                    THEN BucketTrade(monthlyStats[b], isWin, rewardPerTrade, riskPerTrade)
                    ELSE monthlyStats[b]]
           /\ weeklyStats' =
                [b \in DOMAIN weeklyStats |->
                    IF weeklyStats[b].week = date.week
                    THEN BucketTrade(weeklyStats[b], isWin, rewardPerTrade, riskPerTrade)
                    ELSE weeklyStats[b]]
           /\ streaks' = StreakTrade(streaks, isWin, date.fullDate)
           /\ outcomes' = Append(outcomes, isWin)
    /\ totalTrades' = totalTrades + 1
    /\ j' = j + 1
    /\ UNCHANGED << params, pc, dates, i, runningEquity, equityCurve, drawdown, stats,
                    simulationKey, effectRuns, reference, shellVars, envVars >>

Trade(draw) == TradeStep(draw) /\ UNCHANGED draws

\* the same trade, with its draw kept in the history
TradeRecorded(draw) == TradeStep(draw) /\ draws' = Append(draws, draw)

(***************************************************************************)
(* The end of a day (lines 219-250).                                       *)
(***************************************************************************)
\* the drawdown trackers after a day that ends at dayEq
DrawdownDayNoStrict(t, dayEq, fullDate) ==
    IF JsGt(dayEq, t.peakEquity)
    THEN [t EXCEPT !.peakEquity = dayEq, !.currentDrawdown = Num(0),
                   !.drawdownStart = Null]
    ELSE LET drawdownAmount == JsSub(t.peakEquity, dayEq)
             drawdownPercentage ==
                 JsMul(JsDiv(drawdownAmount, t.peakEquity), Num(100))
             start == IF t.drawdownStart = Null THEN fullDate ELSE t.drawdownStart
         IN  [t EXCEPT !.currentDrawdown = drawdownPercentage,
                       !.drawdownStart = start, !.drawdownEnd = fullDate,
                       !.maxDrawdown = drawdownPercentage,
                       !.maxDrawdownStart = start, !.maxDrawdownEnd = fullDate]
DrawdownDayFixedPeak(t, dayEq, fullDate) ==
    IF JsGt(dayEq, t.peakEquity)
    THEN [t EXCEPT !.currentDrawdown = Num(0), !.drawdownStart = Null]
    ELSE LET drawdownAmount == JsSub(t.peakEquity, dayEq)
             drawdownPercentage ==
                 JsMul(JsDiv(drawdownAmount, t.peakEquity), Num(100))
         IN  IF JsGt(drawdownPercentage, t.currentDrawdown)
             THEN LET start == IF t.drawdownStart = Null THEN fullDate
                               ELSE t.drawdownStart
                      t1 == [t EXCEPT !.currentDrawdown = drawdownPercentage,
                                      !.drawdownStart = start,
                                      !.drawdownEnd = fullDate]
                  IN  IF JsGt(t1.currentDrawdown, t.maxDrawdown)
                      THEN [t1 EXCEPT !.maxDrawdown = t1.currentDrawdown,
                                      !.maxDrawdownStart = start,
                                      !.maxDrawdownEnd = fullDate]
                      ELSE t1
             ELSE t
DrawdownDay(t, dayEq, fullDate) ==
    IF JsGt(dayEq, t.peakEquity)
    THEN [t EXCEPT !.peakEquity = dayEq, !.currentDrawdown = Num(0),
                   !.drawdownStart = Null]
    ELSE LET drawdownAmount == JsSub(t.peakEquity, dayEq)
             drawdownPercentage ==
                 JsMul(JsDiv(drawdownAmount, t.peakEquity), Num(100))
         IN  IF JsGt(drawdownPercentage, t.currentDrawdown)
             THEN LET start == IF t.drawdownStart = Null THEN fullDate
                               ELSE t.drawdownStart
                      t1 == [t EXCEPT !.currentDrawdown = drawdownPercentage,
                                      !.drawdownStart = start,
                                      !.drawdownEnd = fullDate]
                  IN  IF JsGt(t1.currentDrawdown, t.maxDrawdown)
                      THEN [t1 EXCEPT !.maxDrawdown = t1.currentDrawdown,
                                      !.maxDrawdownStart = start,
                                      !.maxDrawdownEnd = fullDate]
                      ELSE t1
             ELSE t

EndDay ==
    /\ pc = "loop"
    /\ i < Len(dates)
    /\ ~(j < params.tradesPerDay)
    /\ drawdown' = DrawdownDay(drawdown, dayEquity, dates[i + 1].fullDate)
    /\ equityCurve' = Append(equityCurve, EquityPoint(dates[i + 1], dayEquity))
    /\ runningEquity' = dayEquity
    /\ i' = i + 1
    /\ j' = 0
    /\ UNCHANGED << params, pc, dates, dayEquity, monthlyStats, weeklyStats,
                    totalWins, totalLosses, totalTrades, streaks, stats, outcomes,
                    rerunVars, shellVars, envVars >>

(***************************************************************************)
(* The summary (lines 253-297).                                            *)
(***************************************************************************)
\* totalWins / (totalWins + totalLosses) * 100 || params.winRate
ActualWinRateNoFallback(wins, losses, winRate) ==
    JsMul(JsDiv(Num(wins), Num(wins + losses)), Num(100))
ActualWinRate(wins, losses, winRate) ==
    JsOr(JsMul(JsDiv(Num(wins), Num(wins + losses)), Num(100)), Num(winRate))

\* totalProfit / (riskPerTrade * dates.length) || 0
AvgRPerDayOfRun(totalProfit, riskPerTrade, days) ==
    JsOr(JsDiv(totalProfit, riskPerTrade), Num(0))
AvgRPerDay(totalProfit, riskPerTrade, days) ==
    JsOr(JsDiv(totalProfit, JsMul(riskPerTrade, Num(days))), Num(0))

\* totalTrades / dates.length || params.tradesPerDay
ActualAvgTradesPerDayNoFallback(trades, days, tradesPerDay) ==
    JsDiv(Num(trades), Num(days))
ActualAvgTradesPerDay(trades, days, tradesPerDay) ==
    JsOr(JsDiv(Num(trades), Num(days)), Num(tradesPerDay))

\* (wins / (wins + losses) * 100 || 0).toFixed(2), in hundredths: the quotient
\* and the product are doubles; 0 / 0 is NaN, which || replaces by 0
BucketWinRateTruncated(b) ==
    ToFixed2Truncated[JsOr(JsMul(JsDiv(Num(b.wins), Num(b.wins + b.losses)), Num(100)),
                  Num(0))]
BucketWinRate(b) ==
    ToFixed2[JsOr(JsMul(JsDiv(Num(b.wins), Num(b.wins + b.losses)), Num(100)),
                  Num(0))]

MonthlyBreakdown(ms) ==
    [b \in DOMAIN ms |->
        [month |-> ms[b].month, wins |-> ms[b].wins, losses |-> ms[b].losses,
         profitLoss |-> ms[b].profitLoss, trades |-> ms[b].trades,
         winRate |-> BucketWinRate(ms[b])]]

WeeklyBreakdown(ws) ==
    [b \in DOMAIN ws |->
        [week |-> ws[b].week, wins |-> ws[b].wins, losses |-> ws[b].losses,
         profitLoss |-> ws[b].profitLoss, trades |-> ws[b].trades,
         winRate |-> BucketWinRate(ws[b])]]

\* `${start || 'N/A'} to ${end || 'N/A'}`
PeriodStartOnly(start, end) == << IF start = Null THEN NA ELSE start, end >>
Period(start, end) ==
    << IF start = Null THEN NA ELSE start, IF end = Null THEN NA ELSE end >>

Summary ==
    LET initialEquity == params.startingEquity
        totalProfit == JsSub(runningEquity, initialEquity)
        avgRPerDay == AvgRPerDay(totalProfit, params.riskPerTrade, Len(dates))
    IN  [winRate |-> ActualWinRate(totalWins, totalLosses, params.winRate),
         avgRPerDay |-> avgRPerDay,
         avgRPerWeek |-> JsMul(avgRPerDay, Num(5)),
         avgTradesPerDay |->
             ActualAvgTradesPerDay(totalTrades, Len(dates), params.tradesPerDay),
         initialEquity |-> initialEquity,
         totalProfit |-> totalProfit,
         finalEquity |-> runningEquity,
         maxWinStreak |-> streaks.maxWinStreak,
         maxLossStreak |-> streaks.maxLossStreak,
         maxDrawdown |-> drawdown.maxDrawdown,
         maxDrawdownPeriod |->
             Period(drawdown.maxDrawdownStart, drawdown.maxDrawdownEnd),
         maxWinStreakPeriod |->
             Period(streaks.maxWinStreakStart, streaks.maxWinStreakEnd),
         maxLossStreakPeriod |->
             Period(streaks.maxLossStreakStart, streaks.maxLossStreakEnd),
         equityCurve |-> equityCurve,
         monthlyBreakdown |-> MonthlyBreakdown(monthlyStats),
         weeklyBreakdown |-> WeeklyBreakdown(weeklyStats),
         totalTrades |-> totalTrades,
         riskRewardRatio |-> params.riskRewardRatio]

Finish ==
    /\ pc = "loop"
    /\ ~(i < Len(dates))
    /\ stats' = Summary
    /\ pc' = "done"
    /\ UNCHANGED << params, engineVars, rerunVars, shellVars, envVars >>

(***************************************************************************)
(* Re-running (lines 33-39 and the dependency list of line 298).           *)
(***************************************************************************)
\* prevKey => prevKey + 1
NextKeySkip(prevKey) == prevKey + 2
NextKey(prevKey) == prevKey + 1

\* The click is handled after the effect of the last render has finished.  A
\* changed simulationKey is a changed dependency: the effect runs again.
RerunStep ==
    /\ pc = "done"
    /\ simulationKey < MaxSimulationKey
    /\ simulationKey' = NextKey(simulationKey)
    /\ pc' = IF simulationKey' # simulationKey THEN "mounted" ELSE pc
    /\ UNCHANGED << params, stats, engineVars, effectRuns, draws, shellVars, envVars >>

HandleRerun == RerunStep /\ reference' = reference

\* the same click, the run it ends being remembered or not
HandleRerunRecorded ==
    /\ RerunStep
    /\ \/ reference' = reference
       \/ reference' = [key |-> simulationKey, params |-> params,
                        draws |-> draws, stats |-> stats]

\* the runs explored with re-runs: Thu 2025-01-02 to Mon 2025-01-06
RerunSettings ==
    { [winRate |-> w, tradesPerDay |-> 1, riskRewardRatio |-> 2,
       riskPerTrade |-> Num(100), startingEquity |-> Num(1000),
       startDate |-> << 2025, 1, 2 >>, endDate |-> << 2025, 1, 6 >>] :
        w \in {50, 100} }
RerunRuntimes == { rt \in Runtimes : rt.locale = "en-US" }

InitRerun ==
    /\ runtime \in RerunRuntimes
    /\ now = FirstNow
    /\ params \in RerunSettings
    /\ pc = "mounted"
    /\ EngineFresh
    /\ showResults = TRUE
    /\ settings = Unmounted
    /\ savedConfigs = << >>

NextRerun ==
    \/ RunEffect
    \/ \E draw \in Draws : TradeRecorded(draw)
    \/ EndDay
    \/ Finish
    \/ HandleRerunRecorded

SpecRerun == InitRerun /\ [][NextRerun]_vars

(***************************************************************************)
(* The shell: TradingSimulationApp and the settings form                   *)
(* (trading-simulation-app.tsx).  Of SimulationSettings the seven fields   *)
(* the engine reads are kept.  savedConfigs is the list kept both in the   *)
(* form's state and under 'tradingSimulationConfigs' in localStorage: the  *)
(* two are written together and the form reloads the list when it mounts.  *)
(* A text is a sequence of characters; a date text is << >> (the cleared   *)
(* input, an invalid date) or << year, month, day >>.                      *)
(***************************************************************************)
\* useState<SimulationSettings | null>(null)
NoParams == [null |-> TRUE]

\* date.toISOString().split('T')[0]
formatDateForInput(date) == IsoString(date)

\* the initial state of the form: today and oneYearFromNow are two readings
\* of the clock, new Date() of line 57 and new Date() of line 59, and
\* oneYearFromNow.setFullYear(today.getFullYear() + 1) moves the second one
DefaultSettings(timeZone, today, oneYearFromNow) ==
    [startDate |-> formatDateForInput(today),
     endDate |-> formatDateForInput(
                     setFullYear(timeZone, oneYearFromNow,
                                 getFullYear(timeZone, today) + 1)),
     tradesPerDay |-> 4,
     winRate |-> 55,
     riskRewardRatio |-> 1,
     startingEquity |-> Num(50000),
     riskPerTrade |-> Num(250)]

\* isNaN(new Date(text).getTime())
DateIsNaN(text) == text = << >>

IsValidDateRangeUnordered(s) ==
    ~(DateIsNaN(s.startDate) \/ DateIsNaN(s.endDate))
IsValidDateRange(s) ==
    IF DateIsNaN(s.startDate) \/ DateIsNaN(s.endDate)
    THEN FALSE
    ELSE ParseDate(s.endDate) >= ParseDate(s.startDate)

\* parseFloat of a text of decimal digits
RECURSIVE parseFloat(_)
parseFloat(text) ==
    IF Len(text) = 1 THEN text[1]
    ELSE 10 * parseFloat(SubSeq(text, 1, Len(text) - 1)) + text[Len(text)]

\* the code points String.prototype.trim removes: white space (TAB, VT, FF,
\* SP, NBSP, ZWNBSP and the space separators) and line terminators
WhiteSpace ==
    {9, 10, 11, 12, 13, 32, 160, 5760, 8232, 8233, 8239, 8287, 12288, 65279}
        \cup (8192 .. 8202)

\* String.prototype.trim of a text of code points
RECURSIVE trim(_)
trim(text) ==
    IF text = << >> THEN text
    ELSE IF Head(text) \in WhiteSpace THEN trim(Tail(text))
    ELSE IF text[Len(text)] \in WhiteSpace THEN trim(SubSeq(text, 1, Len(text) - 1))
    ELSE text

\* what the user types: a cleared date or Tuesday 2025-01-07, the number 1
\* for the trades per day, and as the name of a configuration nothing, a
\* space, a tab or "a"
DateTexts == { << >>, << 2025, 1, 7 >> }
NumberTexts == { << 1 >> }
FormEdits ==
    { [name |-> n, type |-> "date", value |-> v] :
        n \in {"startDate", "endDate"}, v \in DateTexts }
    \cup { [name |-> "tradesPerDay", type |-> "number", value |-> v] :
              v \in NumberTexts }
ConfigNames == { << >>, << 32 >>, << 9 >>, << 97 >> }

\* the sessions of the app: a runtime and the time at which the form mounts
AppSessions ==
    { [runtime |-> [timeZone |-> "UTC", locale |-> "en-US"], now |-> FirstNow],
      \* 2024-03-01T00:30Z: the evening of February 29 in New York
      [runtime |-> [timeZone |-> "America/New_York", locale |-> "en-US"],
       now |-> ParseDate(<< 2024, 3, 1 >>) + 30],
      \* 2024-02-29T12:00Z: the first hour of March 1 in Auckland
      [runtime |-> [timeZone |-> "Pacific/Auckland", locale |-> "en-US"],
       now |-> ParseDate(<< 2024, 2, 29 >>) + 720] }

\* the time between two looks at the clock, in minutes, and the time at
\* which the session of a runtime starts
ClockStep == 360
SessionStart(rt) == (CHOOSE session \in AppSessions : session.runtime = rt).now

\* the clock of the session is followed up to LastReading
LastReading(rt) == SessionStart(rt) + MaxClockSteps * ClockStep

\* what the second new Date() of a mounting form can read after the first has
\* read today: the same time, or a later one
SecondReadings(rt, today) ==
    { reading \in { today, today + ClockStep } : reading <= LastReading(rt) }

\* new Date().toLocaleDateString(): the local date in the order of the locale
toLocaleDateString(rt, date) ==
    LET local == LocalFields[rt.timeZone, date]
    IN  IF rt.locale = "de-DE" THEN << local.day, local.month + 1, local.year >>
        ELSE << local.month + 1, local.day, local.year >>

\* the state of AnnualTradingResults when it mounts (and, in the model, while
\* it is not mounted)
EngineMounts ==
    /\ dates' = << >>
    /\ i' = 0
    /\ j' = 0
    /\ dayEquity' = Num(0)
    /\ runningEquity' = Num(0)
    /\ equityCurve' = << >>
    /\ monthlyStats' = << >>
    /\ weeklyStats' = << >>
    /\ totalWins' = 0
    /\ totalLosses' = 0
    /\ totalTrades' = 0
    /\ streaks' = InitialStreaks
    /\ drawdown' = InitialDrawdown(Num(0))
    /\ stats' = InitialStats
    /\ simulationKey' = 1
    /\ effectRuns' = 0
    /\ outcomes' = << >>
    /\ draws' = << >>
    /\ reference' = NoReference

shellFrame == << stats, engineVars, rerunVars >>

HandleChange(e) ==
    /\ ~showResults
    /\ settings' = [settings EXCEPT
                      ![e.name] = IF e.type = "number" THEN parseFloat(e.value)
                                  ELSE e.value]
    /\ UNCHANGED << params, pc, showResults, savedConfigs, shellFrame, envVars >>

\* the submitted runs that are followed: the range spans at most MaxSpan days
\* and the run has at most MaxAppTrades trades
Explored(rt, p) ==
    /\ ParseDate(p.endDate) - ParseDate(p.startDate) <= 1440 * MaxSpan
    /\ TrialCount(rt, p) <= MaxAppTrades

\* onSubmit is handleSettingsSubmit: the form is replaced by the results view,
\* AnnualTradingResults mounts with its initial state
HandleSubmit ==
    /\ ~showResults
    /\ IsValidDateRange(settings) => Explored(runtime, settings)
    /\ IF IsValidDateRange(settings)
       THEN /\ params' = settings
            /\ showResults' = TRUE
            /\ settings' = Unmounted
            /\ pc' = "mounted"
            /\ EngineMounts
       ELSE UNCHANGED << params, showResults, settings, pc, shellFrame >>
    /\ UNCHANGED << savedConfigs, envVars >>

\* The click is handled after the effect of the last render has finished.  The
\* results view is replaced by a newly mounted form, whose defaults are taken
\* from two readings of the clock at that time.
HandleBackToSettings ==
    /\ showResults
    /\ pc = "done"
    /\ showResults' = FALSE
    /\ \E oneYearFromNow \in SecondReadings(runtime, now) :
          /\ settings' = DefaultSettings(runtime.timeZone, now, oneYearFromNow)
          /\ now' = oneYearFromNow
    /\ pc' = "unmounted"
    /\ EngineMounts
    /\ UNCHANGED << params, savedConfigs, runtime >>

HandleSaveSettings(configName) ==
    /\ ~showResults
    /\ Len(savedConfigs) < MaxSavedConfigs
    /\ IF trim(configName) = << >>
       THEN UNCHANGED savedConfigs
       ELSE savedConfigs' =
                Append(savedConfigs,
                       [name |-> configName, settings |-> settings,
                        date |-> toLocaleDateString(runtime, now)])
    /\ UNCHANGED << params, pc, showResults, settings, shellFrame, envVars >>

HandleLoadSettings(config) ==
    /\ ~showResults
    /\ settings' = config.settings
    /\ UNCHANGED << params, pc, showResults, savedConfigs, shellFrame, envVars >>

HandleDeleteConfig(indexToDelete) ==
    /\ ~showResults
    /\ savedConfigs' =
          [n \in 1 .. (Len(savedConfigs) - 1) |->
              IF n - 1 < indexToDelete THEN savedConfigs[n] ELSE savedConfigs[n + 1]]
    /\ UNCHANGED << params, pc, showResults, settings, shellFrame, envVars >>

\* time passes
Tick ==
    /\ now + ClockStep <= LastReading(runtime)
    /\ now' = now + ClockStep
    /\ UNCHANGED << params, pc, stats, engineVars, rerunVars, shellVars, runtime >>

InitApp ==
    /\ \E session \in AppSessions :
          /\ runtime = session.runtime
          /\ \E oneYearFromNow \in SecondReadings(session.runtime, session.now) :
                /\ settings = DefaultSettings(runtime.timeZone, session.now,
                                              oneYearFromNow)
                /\ now = oneYearFromNow
    /\ params = NoParams
    /\ pc = "unmounted"
    /\ EngineFresh
    /\ showResults = FALSE
    /\ savedConfigs = << >>

\* the effect runs, to its end, before the next event is handled
NextApp ==
    \/ \E e \in FormEdits : HandleChange(e)
    \/ HandleSubmit
    \/ RunEffect
    \/ \E draw \in Draws : Trade(draw)
    \/ EndDay
    \/ Finish
    \/ HandleRerun
    \/ HandleBackToSettings
    \/ \E configName \in ConfigNames : HandleSaveSettings(configName)
    \/ \E k \in 1 .. Len(savedConfigs) : HandleLoadSettings(savedConfigs[k])
    \/ \E k \in 0 .. (Len(savedConfigs) - 1) : HandleDeleteConfig(k)
    \/ Tick

SpecApp == InitApp /\ [][NextApp]_vars

Next ==
    \/ RunEffect
    \/ \E draw \in Draws : Trade(draw)
    \/ EndDay
    \/ Finish

Spec == Init /\ [][Next]_vars

(***************************************************************************)
(* Properties.                                                             *)
(***************************************************************************)
\* the exact fraction n / d in lowest terms, d > 0
RECURSIVE Gcd(_, _)
Gcd(a, b) == IF b = 0 THEN a ELSE Gcd(b, a % b)
Norm(n, d) ==
    LET g == Gcd(Abs(n), Abs(d))
    IN  [n |-> n \div g, d |-> d \div g]

RECURSIVE SumOf(_, _)
\* the sum of F(seq[k]) over the sequence
SumOf(F(_), seq) == IF seq = << >> THEN 0 ELSE F(Head(seq)) + SumOf(F, Tail(seq))

Decided(b) == b.wins + b.losses
\* the configured range, of date-only precision, as day numbers
StartDate == ParseDate(params.startDate) \div 1440
EndDate == ParseDate(params.endDate) \div 1440
\* the Monday-to-Friday days of the configured range
Weekdays == { d \in StartDate .. EndDate : WeekDay[d] \in 1 .. 5 }
\* the calendar day of a generated trading day: the one its labels show
CalendarDay(date) == LocalTime[runtime.timeZone, date] \div 1440
\* the trading days of the run: those the effect has generated
TradingDayCount == Len(dates)
Running == pc \in {"loop", "done"}

\* |x| of a Number, whether a Number is a whole number, and whether it has
\* all 53 binary digits (is not 0, subnormal, an Infinity or NaN)
Magnitude(x) == IF x.sign = -1 THEN Negated(x) ELSE x
IsWhole(x) ==
    /\ IsFinite(x)
    /\ \/ IsZero(x)
       \/ x.exp >= 0
       \/ Strip[ShiftLeft(ShiftRight(x.digits, -x.exp), -x.exp)] = x.digits
IsNormal(x) == IsFinite(x) /\ ~IsZero(x) /\ x.digits[1] >= MinMantissa[1]

\* riskPerTrade * riskRewardRatio, as the run computes it
RewardPerTrade == JsMul(params.riskPerTrade, Num(params.riskRewardRatio))
\* the larger of two Numbers
LargerOf(x, y) == IF JsGt(x, y) THEN x ELSE y

\* |startingEquity| + trades x the larger of the two amounts: no equity and
\* no profitLoss of a run of so many trades is larger in magnitude
LargestMagnitude(trades) ==
    JsAdd(Magnitude(params.startingEquity),
          JsMul(Num(trades), LargerOf(RewardPerTrade, params.riskPerTrade)))
\* 2^53: the whole numbers below it are doubles, and so are their sums
WholeLimit == Finite(1, MinMantissa, 1)
\* the amounts of the run are whole numbers and so small that no sum is
\* rounded while the magnitudes stay below largest
ExactAmounts(largest) ==
    /\ IsWhole(params.startingEquity)
    /\ IsWhole(params.riskPerTrade)
    /\ IsWhole(RewardPerTrade)
    /\ JsGt(WholeLimit, largest)
\* every rounding is by at most 2^-53 of its result while the magnitudes stay
\* below largest: no sum comes near the largest double (twice largest is a
\* finite Number) and the product riskPerTrade x riskRewardRatio has all its
\* digits
RelativeRoundings(largest) ==
    /\ IsFinite(JsMul(Num(2), largest))
    /\ IsZero(RewardPerTrade) \/ IsNormal(RewardPerTrade)

\* 2^-51, four times the largest relative error of one rounding
FourRoundings == Finite(1, MinMantissa, -103)
\* what the roundings of a run of so many trades can add up to: each sum or
\* product is rounded once, by at most 2^-53 of its magnitude, and no
\* magnitude exceeds LargestMagnitude
RoundingBound(trades, largest) ==
    JsMul(JsMul(Num(trades + 1), FourRoundings), largest)
\* x and y differ by no more than bound
Within(x, y, bound) == JsGe(bound, Magnitude(JsSub(x, y)))
\* x and y differ by no more than the roundings of so many trades
Near(x, y, trades, largest) == Within(x, y, RoundingBound(trades, largest))

\* the doubles next to x, away from 0 and towards 0
AwayFromZero(x) == [Successor(x.digits, x.exp) EXCEPT !.sign = x.sign]
TowardsZero(x) ==
    IF x.digits = MinMantissa /\ x.exp > MinExponent
    THEN [x EXCEPT !.digits = MaxMantissa, !.exp = @ - 1]
    ELSE Finite(x.sign, SubDigits[x.digits, One, 0], x.exp)

\* the sum of the Numbers of a sequence, added in its order
JsSum[seq \in Seq(Doubles), sum \in Doubles] ==
    IF seq = << >> THEN sum ELSE JsSum[Tail(seq), JsAdd(sum, Head(seq))]
\* x with amount added so many times, each sum rounded
AddedTimes[x \in Doubles, amount \in Doubles, times \in Nat] ==
    IF times = 0 THEN x ELSE AddedTimes[JsAdd(x, amount), amount, times - 1]

\* C1: every monthly and every weekly bucket has wins + losses = trades after
\* each trade, and at the end of the run the wins plus the losses of all
\* monthly buckets, and likewise of all weekly buckets, add up to totalTrades.
C1_BucketCounts ==
    /\ \A b \in DOMAIN monthlyStats : Decided(monthlyStats[b]) = monthlyStats[b].trades
    /\ \A b \in DOMAIN weeklyStats : Decided(weeklyStats[b]) = weeklyStats[b].trades
    /\ pc = "done" =>
        /\ SumOf(Decided, stats.monthlyBreakdown) = stats.totalTrades
        /\ SumOf(Decided, stats.weeklyBreakdown) = stats.totalTrades
        /\ stats.totalTrades = totalWins + totalLosses

C1_Witness ==
    /\ pc = "done"
    /\ stats.totalTrades >= 4
    /\ Len(stats.monthlyBreakdown) >= 2
    /\ Len(stats.weeklyBreakdown) >= 2
    /\ \E b \in DOMAIN monthlyStats :
          monthlyStats[b].wins > 0 /\ monthlyStats[b].losses > 0

\* C2: the current win streak and the current loss streak are never both
\* positive; a winning trade leaves the loss streak at 0 and a losing trade
\* leaves the win streak at 0.
C2_StreakExclusive ==
    /\ [](~(streaks.currentWinStreak > 0 /\ streaks.currentLossStreak > 0))
    /\ [][/\ totalWins' = totalWins + 1 =>
                /\ streaks'.currentLossStreak = 0
                /\ streaks'.currentWinStreak = streaks.currentWinStreak + 1
          /\ totalLosses' = totalLosses + 1 =>
                /\ streaks'.currentWinStreak = 0
                /\ streaks'.currentLossStreak = streaks.currentLossStreak + 1]_vars

C2_Witness ==
    /\ streaks.currentWinStreak > 0
    /\ streaks.maxLossStreak > 1
    /\ streaks.currentLossStreak = 0

\* C3: generateDates returns exactly the Monday-to-Friday days of
\* [start, end], each once, in increasing order, and nothing when end < start.
C3_GenerateDates ==
    Running =>
        /\ { CalendarDay(dates[k].dateObj) : k \in DOMAIN dates } = Weekdays
        /\ Len(dates) = Cardinality(Weekdays)
        /\ \A k \in DOMAIN dates :
              /\ getDay(runtime.timeZone, dates[k].dateObj) \notin {0, 6}
              /\ k < Len(dates) =>
                    CalendarDay(dates[k].dateObj) < CalendarDay(dates[k + 1].dateObj)
        /\ EndDate < StartDate => dates = << >>

\* C4: the equity curve of a finished run has one entry per trading day plus
\* one, or no entry at all when the range has no trading day.
C4_EquityCurveLength ==
    /\ pc = "done" =>
          Len(stats.equityCurve) =
              IF TradingDayCount > 0 THEN TradingDayCount + 1 ELSE 0
    /\ pc = "loop" => Len(equityCurve) = IF TradingDayCount > 0 THEN i + 1 ELSE 0

C4_Witness ==
    /\ pc = "done"
    /\ TradingDayCount >= 3
    /\ Len(stats.equityCurve) = TradingDayCount + 1

\* C5: the recorded max drawdown starts at 0, is never negative, never
\* decreases from one day to the next, and changes only to a strictly larger
\* current drawdown.
C5_DrawdownMonotonic ==
    /\ [](JsGe(drawdown.maxDrawdown, Num(0)))
    /\ [][/\ pc = "mounted" => drawdown'.maxDrawdown = Num(0)
          /\ pc = "loop" =>
                /\ JsGe(drawdown'.maxDrawdown, drawdown.maxDrawdown)
                /\ drawdown'.maxDrawdown # drawdown.maxDrawdown =>
                      /\ JsGt(drawdown'.maxDrawdown, drawdown.maxDrawdown)
                      /\ drawdown'.maxDrawdown = drawdown'.currentDrawdown]_vars

C5_Witness ==
    /\ pc = "loop"
    /\ i >= 3
    /\ JsGt(drawdown.maxDrawdown, drawdown.currentDrawdown)
    /\ JsGt(drawdown.currentDrawdown, Num(0))

\* C6: when at least one trade was decided the reported win rate is
\* totalWins / (totalWins + totalLosses) x 100, also when that is 0; the
\* configured win rate is reported only when no trade was decided.
C6_RealizedWinRate ==
    pc = "done" =>
        stats.winRate =
            IF totalWins + totalLosses > 0
            THEN JsMul(JsDiv(Num(totalWins), Num(totalWins + totalLosses)), Num(100))
            ELSE Num(params.winRate)

\* C7: a run over a range without trading days reports the configured win
\* rate, avgRPerDay = 0, avgRPerWeek = 0, totalTrades = 0, finalEquity =
\* initialEquity and empty breakdown lists, and it does finish.
C7_NoTradingDays ==
    TradingDayCount = 0 =>
        /\ pc = "loop" => ENABLED Finish
        /\ pc = "done" =>
            /\ stats.winRate = Num(params.winRate)
            /\ stats.avgRPerDay = Num(0)
            /\ stats.avgRPerWeek = Num(0)
            /\ stats.totalTrades = 0
            /\ stats.initialEquity = params.startingEquity
            /\ stats.finalEquity = stats.initialEquity
            /\ stats.monthlyBreakdown = << >>
            /\ stats.weeklyBreakdown = << >>

C7_Witness ==
    /\ pc = "done"
    /\ TradingDayCount = 0
    /\ EndDate > StartDate
    /\ params.winRate = 50

\* C8: every derived rate of the output is a finite number: winRate,
\* avgRPerDay, avgRPerWeek, avgTradesPerDay, maxDrawdown and every bucket
\* win rate.
C8_FiniteOutputs ==
    pc = "done" =>
        /\ IsFinite(stats.winRate)
        /\ IsFinite(stats.avgRPerDay)
        /\ IsFinite(stats.avgRPerWeek)
        /\ IsFinite(stats.avgTradesPerDay)
        /\ IsFinite(stats.maxDrawdown)
        /\ \A b \in DOMAIN stats.monthlyBreakdown :
              stats.monthlyBreakdown[b].winRate \in 0 .. 10000
        /\ \A b \in DOMAIN stats.weeklyBreakdown :
              stats.weeklyBreakdown[b].winRate \in 0 .. 10000

\* C9: with a win rate of 100 every trade wins: finalEquity = startingEquity
\* + N x T x (riskPerTrade x riskRewardRatio), maxWinStreak = N x T,
\* maxLossStreak = 0 and maxDrawdown = 0, for N trading days of T trades.
C9_AllWins ==
    pc = "done" /\ params.winRate = 100 =>
        LET trades == TradingDayCount * params.tradesPerDay
        IN  /\ stats.finalEquity =
                  JsAdd(params.startingEquity, JsMul(Num(trades), RewardPerTrade))
            /\ stats.maxWinStreak = trades
            /\ stats.maxLossStreak = 0
            /\ stats.maxDrawdown = Num(0)

\* startingEquity + N x T x (riskPerTrade x riskRewardRatio)
AllWinsEquity ==
    JsAdd(params.startingEquity,
          JsMul(Num(TradingDayCount * params.tradesPerDay), RewardPerTrade))

\* C9, amended: with a win rate of 100 every trade wins: maxWinStreak = N x T,
\* maxLossStreak = 0, maxDrawdown = 0, and finalEquity is startingEquity with
\* riskPerTrade x riskRewardRatio added N x T times, each sum rounded: it is
\* startingEquity + N x T x (riskPerTrade x riskRewardRatio) when the amounts
\* are whole numbers and within the roundings of it otherwise (spec scenario:
\* 8 weekdays, T = 1, risk 100, ratio 2, start 1000 gives 2600 and streak 8).
C9_AllWinsRounded ==
    pc = "done" /\ params.winRate = 100 =>
        LET trades == TradingDayCount * params.tradesPerDay
        IN  /\ stats.finalEquity =
                  AddedTimes[params.startingEquity, RewardPerTrade, trades]
            /\ \E largest \in { LargestMagnitude(trades) } :
                  /\ RelativeRoundings(largest) =>
                        Near(stats.finalEquity, AllWinsEquity, trades, largest)
                  /\ ExactAmounts(largest) => stats.finalEquity = AllWinsEquity
            /\ params = [winRate |-> 100, tradesPerDay |-> 1, riskRewardRatio |-> 2,
                         riskPerTrade |-> Num(100), startingEquity |-> Num(1000),
                         startDate |-> << 2025, 1, 1 >>,
                         endDate |-> << 2025, 1, 10 >>]
                  => stats.finalEquity = Num(2600) /\ stats.maxWinStreak = 8
            /\ stats.maxWinStreak = trades
            /\ stats.maxLossStreak = 0
            /\ stats.maxDrawdown = Num(0)

\* eight winning trades of 250.1 x 2 from 1000: the sums give
\* 5001.599999999999, the product 5001.6
C9_Witness ==
    /\ pc = "done"
    /\ params = [winRate |-> 100, tradesPerDay |-> 1, riskRewardRatio |-> 2,
                 riskPerTrade |-> Tenths(2501), startingEquity |-> Num(1000),
                 startDate |-> << 2025, 1, 1 >>, endDate |-> << 2025, 1, 10 >>]
    /\ stats.maxWinStreak = 8
    /\ AllWinsEquity = Tenths(50016)
    /\ stats.finalEquity = TowardsZero(Tenths(50016))

\* C10: with a win rate of 0 every trade loses: finalEquity = startingEquity
\* - N x T x riskPerTrade, maxLossStreak = N x T, maxWinStreak = 0 and
\* maxDrawdown = (startingEquity - finalEquity) / startingEquity x 100
\* wherever that quotient is a number (it is 0 / 0 for a run without trades
\* from a starting equity of 0).
C10_AllLosses ==
    pc = "done" /\ params.winRate = 0 =>
        LET trades == TradingDayCount * params.tradesPerDay
            expected ==
                JsMul(JsDiv(JsSub(params.startingEquity, stats.finalEquity),
                            params.startingEquity), Num(100))
        IN  /\ stats.finalEquity =
                  JsSub(params.startingEquity,
                        JsMul(Num(trades), params.riskPerTrade))
            /\ stats.maxLossStreak = trades
            /\ stats.maxWinStreak = 0
            /\ ~IsNaN(expected) => stats.maxDrawdown = expected

\* startingEquity - N x T x riskPerTrade
AllLossesEquity ==
    JsSub(params.startingEquity,
          JsMul(Num(TradingDayCount * params.tradesPerDay), params.riskPerTrade))

\* C10, amended: with a win rate of 0 every trade loses: maxLossStreak = N x
\* T, maxWinStreak = 0, maxDrawdown = (startingEquity - finalEquity) /
\* startingEquity x 100 wherever that quotient is a number, and finalEquity
\* is startingEquity with riskPerTrade taken N x T times, each difference
\* rounded: it is startingEquity - N x T x riskPerTrade when the amounts are
\* whole numbers and within the roundings of it otherwise (spec scenario: 8
\* weekdays, T = 1, risk 100, start 1000 gives 200 and 80%).
C10_AllLossesRounded ==
    pc = "done" /\ params.winRate = 0 =>
        LET trades == TradingDayCount * params.tradesPerDay
            expected ==
                JsMul(JsDiv(JsSub(params.startingEquity, stats.finalEquity),
                            params.startingEquity), Num(100))
        IN  /\ stats.finalEquity =
                  AddedTimes[params.startingEquity,
                             Negated(params.riskPerTrade), trades]
            /\ \E largest \in { LargestMagnitude(trades) } :
                  /\ RelativeRoundings(largest) =>
                        Near(stats.finalEquity, AllLossesEquity, trades, largest)
                  /\ ExactAmounts(largest) => stats.finalEquity = AllLossesEquity
            /\ params = [winRate |-> 0, tradesPerDay |-> 1, riskRewardRatio |-> 2,
                         riskPerTrade |-> Num(100), startingEquity |-> Num(1000),
                         startDate |-> << 2025, 1, 1 >>,
                         endDate |-> << 2025, 1, 10 >>]
                  => /\ stats.finalEquity = Num(200)
                     /\ stats.maxLossStreak = 8
                     /\ stats.maxDrawdown = Num(80)
            /\ stats.maxLossStreak = trades
            /\ stats.maxWinStreak = 0
            /\ ~IsNaN(expected) => stats.maxDrawdown = expected

\* eight losing trades of 250.1 from 1000: the differences give
\* -1000.8000000000001, the product -1000.8
C10_Witness ==
    /\ pc = "done"
    /\ params = [winRate |-> 0, tradesPerDay |-> 1, riskRewardRatio |-> 2,
                 riskPerTrade |-> Tenths(2501), startingEquity |-> Num(1000),
                 startDate |-> << 2025, 1, 1 >>, endDate |-> << 2025, 1, 10 >>]
    /\ stats.maxLossStreak = 8
    /\ AllLossesEquity = Tenths(-10008)
    /\ stats.finalEquity # AllLossesEquity

(***************************************************************************)
(* The run as a function of its outcomes, for the properties below.        *)
(***************************************************************************)
MaxOf(S) == CHOOSE x \in S : \A y \in S : y <= x
MinOf(S) == CHOOSE x \in S : \A y \in S : x <= y
\* the largest of the numbers of a set: NaN is no number and is passed over,
\* as the comparisons of the run do (NaN > x and x > NaN are false)
JsMaxOf(S) == CHOOSE x \in S : ~IsNaN(x) /\ \A y \in S : IsNaN(y) \/ JsGe(x, y)

\* the equity after each of the trades with these outcomes, from equity on:
\* a win adds reward, a loss takes risk
EquitiesFrom[equity \in Doubles, wins \in Seq(BOOLEAN),
             reward \in Doubles, risk \in Doubles] ==
    IF wins = << >> THEN << >>
    ELSE IF Head(wins)
    THEN << JsAdd(equity, reward) >>
            \o EquitiesFrom[JsAdd(equity, reward), Tail(wins), reward, risk]
    ELSE << JsSub(equity, risk) >>
            \o EquitiesFrom[JsSub(equity, risk), Tail(wins), reward, risk]
\* the equity after each trade of the run
TradeEquities ==
    EquitiesFrom[params.startingEquity, outcomes, RewardPerTrade,
                 params.riskPerTrade]
\* the equity after n trades
EquityAfter(equities, n) == IF n = 0 THEN params.startingEquity ELSE equities[n]

\* the equity at the end of the d-th trading day, and the running peak then
DayEndEquity(equities, d) == EquityAfter(equities, d * params.tradesPerDay)
PeakAfter(equities, d) ==
    JsMaxOf({params.startingEquity} \cup { DayEndEquity(equities, k) : k \in 1 .. d })
\* the drawdown of day d against the running peak after day d
DayDrawdown(equities, d) ==
    IF DayEndEquity(equities, d) = PeakAfter(equities, d) THEN Num(0)
    ELSE JsMul(JsDiv(JsSub(PeakAfter(equities, d), DayEndEquity(equities, d)),
                     PeakAfter(equities, d)), Num(100))

\* the label of the day of the k-th trade of the run
TradeLabel(k) == dates[((k - 1) \div params.tradesPerDay) + 1].fullDate
\* the number of consecutive trades with outcome v that end with trade k
RECURSIVE RunEndingAt(_, _)
RunEndingAt(k, v) ==
    IF k = 0 \/ outcomes[k] # v THEN 0 ELSE RunEndingAt(k - 1, v) + 1
LongestRun(v) == MaxOf({0} \cup { RunEndingAt(k, v) : k \in DOMAIN outcomes })
\* the last trades of the longest runs
LongestRunEnds(v) ==
    LET longest == LongestRun(v)
    IN  { k \in DOMAIN outcomes : RunEndingAt(k, v) = longest }
\* the days of the first and last trade of the earliest longest run
ExpectedStreakPeriod(v) ==
    LET longest == LongestRun(v)
        last == MinOf(LongestRunEnds(v))
    IN  IF longest = 0 THEN << Null, Null >>
        ELSE << TradeLabel(last - longest + 1), TradeLabel(last) >>

\* C15: after each processed day peakEquity is the largest of the starting
\* equity and the day-end equities so far, and maxDrawdown is the largest
\* drawdown of a processed day against the running peak after that day
\* (0 if no day ended below its running peak); the largest is taken of
\* those that are numbers.
C15_RunningPeakDrawdown ==
    Running =>
        \E equities \in { TradeEquities } :
            /\ drawdown.peakEquity = PeakAfter(equities, i)
            /\ drawdown.maxDrawdown =
                  JsMaxOf({Num(0)} \cup { DayDrawdown(equities, d) : d \in 1 .. i })
            /\ pc = "done" => stats.maxDrawdown = drawdown.maxDrawdown

C15_Witness ==
    /\ pc = "loop"
    /\ i >= 3
    /\ JsGt(drawdown.peakEquity, params.startingEquity)
    /\ JsGt(params.startingEquity, DayEndEquity(TradeEquities, 1))
    /\ JsGt(drawdown.maxDrawdown, drawdown.currentDrawdown)
    /\ JsGt(drawdown.currentDrawdown, Num(0))

\* C16: maxWinStreak is the length of the longest run of consecutive winning
\* trades of the whole trade sequence, across day boundaries, maxLossStreak
\* that of losing trades, and the recorded period is that of the earliest
\* longest run.
C16_LongestStreaks ==
    Running =>
        /\ streaks.maxWinStreak = LongestRun(TRUE)
        /\ streaks.maxLossStreak = LongestRun(FALSE)
        /\ << streaks.maxWinStreakStart, streaks.maxWinStreakEnd >>
              = ExpectedStreakPeriod(TRUE)
        /\ << streaks.maxLossStreakStart, streaks.maxLossStreakEnd >>
              = ExpectedStreakPeriod(FALSE)
        /\ pc = "done" =>
              /\ stats.maxWinStreak = LongestRun(TRUE)
              /\ stats.maxLossStreak = LongestRun(FALSE)
              /\ LongestRun(TRUE) > 0 =>
                    stats.maxWinStreakPeriod = ExpectedStreakPeriod(TRUE)
              /\ LongestRun(FALSE) > 0 =>
                    stats.maxLossStreakPeriod = ExpectedStreakPeriod(FALSE)

C16_Witness ==
    /\ pc = "done"
    /\ stats.maxWinStreak >= 2
    /\ Cardinality(LongestRunEnds(TRUE)) >= 2
    /\ stats.maxWinStreakPeriod[1] # stats.maxWinStreakPeriod[2]

\* a period names two trading days of the run, the first not later than the second
IsDayPeriod(period) ==
    \E a \in DOMAIN dates : \E b \in DOMAIN dates :
        a <= b /\ period = << dates[a].fullDate, dates[b].fullDate >>

\* C17: each of the three periods is "N/A to N/A" exactly when its maximum is
\* 0; otherwise its start and end are labels of trading days of the run, the
\* start not later than the end.
C17_Periods ==
    pc = "done" =>
        /\ stats.maxWinStreakPeriod = << NA, NA >> <=> stats.maxWinStreak = 0
        /\ stats.maxWinStreak # 0 => IsDayPeriod(stats.maxWinStreakPeriod)
        /\ stats.maxLossStreakPeriod = << NA, NA >> <=> stats.maxLossStreak = 0
        /\ stats.maxLossStreak # 0 => IsDayPeriod(stats.maxLossStreakPeriod)
        /\ stats.maxDrawdownPeriod = << NA, NA >> <=> stats.maxDrawdown = Num(0)
        /\ stats.maxDrawdown # Num(0) => IsDayPeriod(stats.maxDrawdownPeriod)

C17_Witness ==
    /\ pc = "done"
    /\ stats.maxWinStreakPeriod = << NA, NA >>
    /\ stats.maxDrawdownPeriod # << NA, NA >>
    /\ stats.maxDrawdownPeriod[1] # stats.maxDrawdownPeriod[2]
    /\ stats.maxLossStreakPeriod[1] # stats.maxLossStreakPeriod[2]

\* keys lists every key of the days once, in the order of first appearance
FirstAppearance(keys, dayKeys) ==
    /\ { keys[b] : b \in DOMAIN keys } = { dayKeys[k] : k \in DOMAIN dayKeys }
    /\ \A a \in DOMAIN keys : \A b \in DOMAIN keys :
          a < b =>
              /\ keys[a] # keys[b]
              /\ MinOf({ k \in DOMAIN dayKeys : dayKeys[k] = keys[a] })
                    < MinOf({ k \in DOMAIN dayKeys : dayKeys[k] = keys[b] })
MonthKeys(buckets) == [b \in DOMAIN buckets |-> buckets[b].month]
WeekKeys(buckets) == [b \in DOMAIN buckets |-> buckets[b].week]

\* C18: the monthly (weekly) list has exactly one bucket per month (week) key
\* of the run's trading days, in the order in which the keys first appear;
\* the buckets exist before the first trade and none is ever removed.
C18_Buckets ==
    /\ [](Running =>
            /\ FirstAppearance(MonthKeys(monthlyStats),
                               [k \in DOMAIN dates |-> dates[k].month])
            /\ FirstAppearance(WeekKeys(weeklyStats),
                               [k \in DOMAIN dates |-> dates[k].week])
            /\ pc = "done" =>
                  /\ MonthKeys(stats.monthlyBreakdown) = MonthKeys(monthlyStats)
                  /\ WeekKeys(stats.weeklyBreakdown) = WeekKeys(weeklyStats))
    /\ [][pc = "loop" =>
            /\ MonthKeys(monthlyStats') = MonthKeys(monthlyStats)
            /\ WeekKeys(weeklyStats') = WeekKeys(weeklyStats)]_vars

C18_Witness ==
    /\ pc = "done"
    /\ Len(stats.monthlyBreakdown) = 2
    /\ Len(stats.weeklyBreakdown) >= 3
    /\ stats.totalTrades > Len(stats.weeklyBreakdown)

\* the output entry carries the bucket's counters
SameCounters(entry, bucket) ==
    /\ entry.wins = bucket.wins
    /\ entry.losses = bucket.losses
    /\ entry.profitLoss = bucket.profitLoss
    /\ entry.trades = bucket.trades
\* hundredths is x rounded to two decimals: no count of hundredths is nearer
RoundedToCents(hundredths, x) ==
    /\ 2 * (hundredths * x.d - 100 * x.n) <= x.d
    /\ 2 * (100 * x.n - hundredths * x.d) <= x.d
ExactRate(bucket) ==
    IF Decided(bucket) = 0 THEN Norm(0, 1)
    ELSE Norm(bucket.wins * 100, Decided(bucket))
\* buckets of up to 198 decided trades, more than a run that is followed
\* has: their exact rates include those halfway between two hundredths, such
\* as 14.375 (23 wins, 137 losses), which the doubles bring to 14.37
SampleBuckets ==
    { [wins |-> w, losses |-> l] :
        w \in {0, 1, 2, 3, 23, 41}, l \in {0, 29, 119, 137, 157} }
SampleRatesAreRounded ==
    /\ \A b \in SampleBuckets : RoundedToCents(BucketWinRate(b), ExactRate(b))
    /\ BucketWinRate([wins |-> 23, losses |-> 137]) = 1437
    /\ BucketWinRate([wins |-> 41, losses |-> 119]) = 2562

Projected ==
    /\ MonthKeys(stats.monthlyBreakdown) = MonthKeys(monthlyStats)
    /\ WeekKeys(stats.weeklyBreakdown) = WeekKeys(weeklyStats)
    /\ \A b \in DOMAIN monthlyStats :
          SameCounters(stats.monthlyBreakdown[b], monthlyStats[b])
    /\ \A b \in DOMAIN weeklyStats :
          SameCounters(stats.weeklyBreakdown[b], weeklyStats[b])

\* C19 as stated: finalization leaves the buckets unchanged and every entry
\* carries the bucket's key and counters and a win rate equal to
\* wins / (wins + losses) x 100, or 0 without decided trades.
C19_ExactWinRate ==
    pc = "done" =>
        /\ Projected
        /\ \A b \in DOMAIN monthlyStats :
              Norm(stats.monthlyBreakdown[b].winRate, 100) = ExactRate(monthlyStats[b])
        /\ \A b \in DOMAIN weeklyStats :
              Norm(stats.weeklyBreakdown[b].winRate, 100) = ExactRate(weeklyStats[b])

\* C19 as amended: finalization leaves the buckets unchanged and every entry
\* carries the bucket's key and counters and the win rate
\* wins / (wins + losses) x 100 (0 without decided trades) rounded to two
\* decimals, to either side when the rate is halfway between two hundredths.
C19_Projection ==
    /\ [](pc = "done" =>
            /\ SampleRatesAreRounded
            /\ Projected
            /\ \A b \in DOMAIN monthlyStats :
                  RoundedToCents(stats.monthlyBreakdown[b].winRate,
                                 ExactRate(monthlyStats[b]))
            /\ \A b \in DOMAIN weeklyStats :
                  RoundedToCents(stats.weeklyBreakdown[b].winRate,
                                 ExactRate(weeklyStats[b])))
    /\ [][pc = "loop" /\ pc' = "done" =>
            monthlyStats' = monthlyStats /\ weeklyStats' = weeklyStats]_vars

C19_Witness ==
    /\ pc = "done"
    /\ \E b \in DOMAIN monthlyStats :
          /\ monthlyStats[b].wins = 2
          /\ monthlyStats[b].losses = 1
          /\ stats.monthlyBreakdown[b].winRate = 6667

IsPrefix(a, b) == Len(a) <= Len(b) /\ \A k \in DOMAIN a : a[k] = b[k]

\* C20: with at least one trading day the first equity-curve entry has the
\* starting equity and the label and keys of the first trading day, entry k
\* after it has the label of the k-th trading day and the equity after that
\* day's trades, entries are only appended, and the last entry's equity is
\* the reported finalEquity.
C20_EquityCurve ==
    /\ [](Running /\ Len(dates) > 0 =>
            /\ equityCurve[1] =
                  [date |-> dates[1].fullDate, equity |-> params.startingEquity,
                   month |-> dates[1].month, week |-> dates[1].week]
            /\ Len(equityCurve) = i + 1
            /\ \E equities \in { TradeEquities } :
                  \A k \in 1 .. i :
                      equityCurve[k + 1] =
                          [date |-> dates[k].fullDate,
                           equity |-> DayEndEquity(equities, k),
                           month |-> dates[k].month, week |-> dates[k].week]
            /\ pc = "done" =>
                  /\ stats.equityCurve = equityCurve
                  /\ stats.equityCurve[Len(stats.equityCurve)].equity
                        = stats.finalEquity)
    /\ [][pc = "loop" => IsPrefix(equityCurve, equityCurve')]_vars

C20_Witness ==
    /\ pc = "done"
    /\ Len(stats.equityCurve) >= 4
    /\ JsGt(stats.equityCurve[1].equity, stats.equityCurve[2].equity)
    /\ JsGt(stats.equityCurve[3].equity, stats.equityCurve[2].equity)
    /\ stats.finalEquity # stats.equityCurve[3].equity

\* C11: two runs of one mount with the same parameters and the same draws
\* produce the same summary, whatever ran before or between them; the effect
\* starts every run with all trackers re-initialised.
C11_RunsIndependent ==
    /\ [](pc = "done" /\ reference.key > 0
            /\ reference.params = params /\ reference.draws = draws
          => reference.stats = stats)
    /\ [][pc = "mounted" =>
            /\ streaks' = InitialStreaks
            /\ drawdown' = InitialDrawdown(params.startingEquity)
            /\ totalWins' = 0 /\ totalLosses' = 0 /\ totalTrades' = 0
            /\ runningEquity' = params.startingEquity
            /\ dayEquity' = params.startingEquity
            /\ equityCurve' = SeedCurve(dates', params.startingEquity)
            /\ \A b \in DOMAIN monthlyStats' :
                  monthlyStats'[b].trades = 0 /\ monthlyStats'[b].profitLoss = Num(0)
            /\ \A b \in DOMAIN weeklyStats' :
                  weeklyStats'[b].trades = 0 /\ weeklyStats'[b].profitLoss = Num(0)]_vars

C11_Witness ==
    /\ pc = "done"
    /\ simulationKey = 3
    /\ reference.key = 1
    /\ reference.params = params
    /\ reference.draws = draws
    /\ totalWins > 0
    /\ totalLosses > 0

\* C12: simulationKey starts at 1, changes only by handleRerun and then by
\* exactly +1, never decreases, and each of its values has exactly one run of
\* the effect, with the same parameters.
C12_RerunToken ==
    /\ [](/\ simulationKey >= 1
          /\ effectRuns = 0 => simulationKey = 1
          /\ effectRuns = IF pc = "mounted" THEN simulationKey - 1 ELSE simulationKey)
    /\ [][/\ simulationKey' >= simulationKey
          /\ simulationKey' # simulationKey =>
                /\ simulationKey' = simulationKey + 1
                /\ pc = "done" /\ pc' = "mounted"
                /\ params' = params
          /\ pc = "mounted" =>
                /\ pc' = "loop"
                /\ effectRuns' = effectRuns + 1
                /\ simulationKey' = simulationKey
                /\ params' = params]_vars

C12_Witness ==
    /\ pc = "done"
    /\ simulationKey = 3
    /\ effectRuns = 3
    /\ stats.totalTrades = 3

\* C13: the results view is shown, and the engine mounted, only with
\* non-null parameters whose dates are both valid with end >= start; the
\* parameters change only by a submit of a form whose range is valid.
C13_ValidatedParameters ==
    /\ [](showResults \/ pc # "unmounted" =>
            /\ showResults
            /\ params # NoParams
            /\ ~DateIsNaN(params.startDate)
            /\ ~DateIsNaN(params.endDate)
            /\ ParseDate(params.endDate) >= ParseDate(params.startDate))
    /\ [][params' # params =>
            /\ ~showResults
            /\ ~DateIsNaN(settings.startDate)
            /\ ~DateIsNaN(settings.endDate)
            /\ ParseDate(settings.endDate) >= ParseDate(settings.startDate)
            /\ params' = settings
            /\ showResults']_vars

\* an edited valid range is shown although a stored configuration has an
\* invalid one
C13_Witness ==
    /\ showResults
    /\ pc = "mounted"
    /\ params.startDate = << 2025, 1, 7 >>
    /\ params.endDate = << 2025, 1, 7 >>
    /\ Len(savedConfigs) > 0
    /\ savedConfigs[1].settings.startDate = << 2025, 1, 8 >>
    /\ savedConfigs[1].settings.endDate = << 2025, 1, 7 >>

\* C14: when the user goes back from the results view, the form shows the
\* settings that were submitted.
C14_SettingsPersist ==
    [][showResults /\ ~showResults' => settings' = params]_vars

(***************************************************************************)
(* The summary's averages.                                                 *)
(***************************************************************************)
\* y is x or one of the steps doubles next to it on either side
RECURSIVE WithinSteps(_, _, _)
WithinSteps(x, y, steps) ==
    \/ x = y
    \/ /\ steps > 0
       /\ IsFinite(x)
       /\ ~IsZero(x)
       /\ \/ WithinSteps(AwayFromZero(x), y, steps - 1)
          \/ WithinSteps(TowardsZero(x), y, steps - 1)

\* avgRPerDay * riskPerTrade * tradingDayCount, evaluated on the doubles
ProductOfAverage ==
    JsMul(JsMul(stats.avgRPerDay, params.riskPerTrade), Num(TradingDayCount))

\* C21, as claimed: for every run with at least one trading day avgRPerDay x
\* riskPerTrade x tradingDayCount equals finalEquity - initialEquity, which
\* is the reported totalProfit, and avgRPerWeek is 5 x avgRPerDay.
C21_ProductIsProfit ==
    pc = "done" =>
        /\ stats.avgRPerWeek = JsMul(stats.avgRPerDay, Num(5))
        /\ TradingDayCount >= 1 =>
            /\ stats.totalProfit = JsSub(stats.finalEquity, stats.initialEquity)
            /\ ProductOfAverage = JsSub(stats.finalEquity, stats.initialEquity)

\* x * k is a double: no digit of the product is lost
ExactProduct(x, k) ==
    \/ IsZero(x)
    \/ LET a == Strip[MulSmall[x.digits, k, 0]]
           extra == BitLength(a) - MantissaBits
       IN  extra <= 0 \/ Strip[ShiftLeft(ShiftRight(a, extra), extra)] = a
\* x / y is a binary fraction: the long division ends
BinaryFraction(x, y) ==
    \/ IsZero(x)
    \/ ~LongDivision[High(Normalised(x).digits), Low(Normalised(x).digits),
                     High(Normalised(y).digits), Low(Normalised(y).digits),
                     0, 0, MantissaBits + 3].sticky

\* the quotient has all its digits: dividend and divisor are finite and the
\* quotient is neither subnormal nor a 0 that stands for a smaller number
QuotientInRange(x, y) ==
    /\ IsFinite(x)
    /\ IsFinite(y)
    /\ IsZero(x) \/ IsNormal(JsDiv(x, y))

\* C21, amended: totalProfit is finalEquity - initialEquity; with at least
\* one trading day avgRPerDay is the quotient of totalProfit and riskPerTrade
\* x tradingDayCount, held by the nearest double, and 0 when that quotient
\* is 0, -0 or NaN.  While profit and divisor are finite and the quotient
\* has all its digits, the product gives back finalEquity - initialEquity
\* exactly when the quotient is a binary fraction and otherwise that or one
\* of the three doubles next to it on either side.  avgRPerWeek is 5 x
\* avgRPerDay whatever the number of trading days of the weeks.
C21_AverageR ==
    pc = "done" =>
        /\ stats.totalProfit = JsSub(stats.finalEquity, stats.initialEquity)
        /\ stats.avgRPerWeek = JsMul(stats.avgRPerDay, Num(5))
        /\ TradingDayCount >= 1 =>
            \E divisor \in { JsMul(params.riskPerTrade, Num(TradingDayCount)) } :
                /\ stats.avgRPerDay =
                      JsOr(JsDiv(JsSub(stats.finalEquity, stats.initialEquity),
                                 divisor), Num(0))
                /\ QuotientInRange(stats.totalProfit, divisor) =>
                      /\ /\ ExactProduct(params.riskPerTrade, TradingDayCount)
                         /\ BinaryFraction(stats.totalProfit, divisor)
                         => ProductOfAverage = stats.totalProfit
                      /\ WithinSteps(stats.totalProfit, ProductOfAverage, 3)

\* a run of three trading days in two weeks whose average is a third
C21_Witness ==
    /\ pc = "done"
    /\ TradingDayCount = 3
    /\ Len(stats.weeklyBreakdown) = 2
    /\ stats.avgRPerDay = JsDiv(Num(-1), Num(3))
    /\ stats.totalProfit = Num(-100)
    /\ ProductOfAverage # stats.totalProfit

\* C22: the reported avgTradesPerDay is the configured tradesPerDay: every
\* trading day has exactly tradesPerDay trials, so that totalTrades is
\* tradesPerDay x tradingDayCount, and without trading days the configured
\* value is the fallback.
C22_TradesPerDay ==
    /\ [](/\ Running => totalTrades = i * params.tradesPerDay + j
          /\ Running => j <= params.tradesPerDay
          /\ pc = "done" =>
                /\ stats.avgTradesPerDay = Num(params.tradesPerDay)
                /\ stats.totalTrades = params.tradesPerDay * TradingDayCount
                /\ Len(outcomes) = stats.totalTrades
                /\ TradingDayCount = 0 => totalTrades = 0)
    /\ [][i' # i => i' = i + 1 /\ j = params.tradesPerDay]_vars

C22_Witness ==
    /\ pc = "done"
    /\ TradingDayCount = 3
    /\ params.tradesPerDay = 2
    /\ stats.totalTrades = 6
    /\ stats.avgTradesPerDay = Num(2)
    /\ totalWins = 2

(***************************************************************************)
(* Conservation of profit.                                                 *)
(***************************************************************************)
\* the profitLoss of all buckets of a list, added up
ProfitLossSum(buckets) ==
    JsSum[[b \in DOMAIN buckets |-> buckets[b].profitLoss], Num(0)]

\* startingEquity + totalWins x (riskPerTrade x riskRewardRatio)
\*                - totalLosses x riskPerTrade
EquityOfCounts ==
    JsSub(JsAdd(params.startingEquity, JsMul(Num(totalWins), RewardPerTrade)),
          JsMul(Num(totalLosses), params.riskPerTrade))

\* C23, as claimed: after every trade the running equity is startingEquity +
\* totalWins x (riskPerTrade x riskRewardRatio) - totalLosses x riskPerTrade,
\* also below zero, and at the end of the run the profitLoss of the monthly
\* buckets, and of the weekly buckets, add up to totalProfit = finalEquity -
\* initialEquity.
C23_ProfitConserved ==
    Running =>
        /\ dayEquity = EquityOfCounts
        /\ pc = "done" =>
              /\ stats.finalEquity = EquityOfCounts
              /\ stats.totalProfit = JsSub(stats.finalEquity, stats.initialEquity)
              /\ ProfitLossSum(stats.monthlyBreakdown) = stats.totalProfit
              /\ ProfitLossSum(stats.weeklyBreakdown) = stats.totalProfit

\* C23, amended: every trade adds riskPerTrade x riskRewardRatio to the
\* equity or takes riskPerTrade from it, with no floor at zero, and does the
\* same to the profitLoss of one monthly and one weekly bucket; each sum is
\* rounded.  With whole-number amounts the equity after every trade is
\* startingEquity + totalWins x (riskPerTrade x riskRewardRatio) -
\* totalLosses x riskPerTrade and the profitLoss of the monthly buckets, and
\* of the weekly buckets, add up to the profit so far, at the end to
\* totalProfit = finalEquity - initialEquity; with other amounts these hold
\* within the roundings of the run.
C23_ProfitTracked ==
    /\ [](Running =>
            \E equities \in { TradeEquities },
               profit \in { JsSub(dayEquity, params.startingEquity) },
               counted \in { EquityOfCounts },
               monthly \in { ProfitLossSum(monthlyStats) },
               weekly \in { ProfitLossSum(weeklyStats) },
               largest \in { LargestMagnitude(Len(outcomes)) } :
                /\ dayEquity = EquityAfter(equities, Len(outcomes))
                /\ runningEquity = EquityAfter(equities, i * params.tradesPerDay)
                /\ RelativeRoundings(largest) =>
                      \E bound \in { RoundingBound(Len(outcomes), largest) } :
                          /\ Within(dayEquity, counted, bound)
                          /\ Within(monthly, profit, bound)
                          /\ Within(weekly, profit, bound)
                /\ ExactAmounts(largest) =>
                      dayEquity = counted /\ monthly = profit /\ weekly = profit
                /\ pc = "done" =>
                      /\ stats.finalEquity = dayEquity
                      /\ stats.totalProfit = profit
                      /\ stats.initialEquity = params.startingEquity
                      /\ ProfitLossSum(stats.monthlyBreakdown) = monthly
                      /\ ProfitLossSum(stats.weeklyBreakdown) = weekly)
    /\ [][i' # i => runningEquity' = dayEquity]_vars

\* a run of losing trades of 250.1 from 1000 over a month end: it ends below
\* zero, the equity is not that of the counts and the buckets do not add up
\* to totalProfit
C23_Witness ==
    /\ pc = "done"
    /\ params.startingEquity = Num(1000)
    /\ params.riskPerTrade = Tenths(2501)
    /\ JsGt(Num(0), stats.finalEquity)
    /\ Len(stats.monthlyBreakdown) = 2
    /\ Len(stats.weeklyBreakdown) = 2
    /\ stats.finalEquity # EquityOfCounts
    /\ ProfitLossSum(stats.monthlyBreakdown) # stats.totalProfit

(***************************************************************************)
(* Week keys.                                                              *)
(***************************************************************************)
\* the Sunday that begins the calendar week of a trading day
WeekStart(date) == CalendarDay(date) - getDay(runtime.timeZone, date)

\* the positions in dates of the trading days with this week key
DaysOfWeekKey(week) == { k \in DOMAIN dates : dates[k].week = week }

\* the days of eleven years, with a 1 January on every day of the week
CalendarDays == MakeDay[2020, 0, 1] .. MakeDay[2030, 11, 31]

\* On the days a range can visit (midnight UTC of a day, in every runtime) the
\* week number is at least 1, it is 1 on a 1 January that is a trading day,
\* it is the same from a Monday to the Friday that follows it and it grows by
\* one from a Friday to the Monday after it in the same year.
WeekNumbersFollowSundays ==
    \A rt \in Runtimes, d \in CalendarDays :
        LET t == 1440 * d
            weekDay == getDay(rt.timeZone, t)
        IN  /\ WeekNumber(rt, t) >= 1
            /\ weekDay \in 1 .. 5 /\ getMonth(rt.timeZone, t) = 0
                    /\ getDate(rt.timeZone, t) = 1
                  => WeekNumber(rt, t) = 1
            /\ weekDay \in 1 .. 4
                    /\ getFullYear(rt.timeZone, t + 1440) = getFullYear(rt.timeZone, t)
                  => WeekNumber(rt, t + 1440) = WeekNumber(rt, t)
            /\ weekDay = 5
                    /\ getFullYear(rt.timeZone, t + 3 * 1440) = getFullYear(rt.timeZone, t)
                  => WeekNumber(rt, t + 3 * 1440) = WeekNumber(rt, t) + 1

\* C24: a week key groups at most 5 trading days, one after the other in
\* dates and all of one Sunday-to-Saturday week of one year, so that its
\* bucket has at most 5 x tradesPerDay trades; the week number is at least
\* 1; the days of a calendar week that lie in two years have two week keys.
C24_WeekKeys ==
    /\ WeekNumbersFollowSundays
    /\ Running =>
        /\ \A b \in DOMAIN weeklyStats :
              LET week == weeklyStats[b].week
                  days == DaysOfWeekKey(week)
              IN  /\ Cardinality(days) \in 1 .. 5
                  /\ \A k \in MinOf(days) .. MaxOf(days) : k \in days
                  /\ \A k \in days :
                        /\ WeekStart(dates[k].dateObj)
                              = WeekStart(dates[MinOf(days)].dateObj)
                        /\ getFullYear(runtime.timeZone, dates[k].dateObj) = week[3]
                  /\ week[2] >= 1
                  /\ weeklyStats[b].trades <= 5 * params.tradesPerDay
                  /\ pc = "done" =>
                        weeklyStats[b].trades = Cardinality(days) * params.tradesPerDay
        /\ \A k, n \in DOMAIN dates :
              dates[k].week = dates[n].week
                  <=> /\ WeekStart(dates[k].dateObj) = WeekStart(dates[n].dateObj)
                      /\ getFullYear(runtime.timeZone, dates[k].dateObj)
                            = getFullYear(runtime.timeZone, dates[n].dateObj)

=============================================================================
